---------------------------- MODULE Spec2Model ----------------------------
(***************************************************************************)
(* A model of the engine communication layer of gpui-chess:               *)
(*   src/src/domain/uci.rs     the UCI codec (commands, output lines,     *)
(*                             info parsing)                              *)
(*   src/src/models/engine.rs  EngineModel: the controller, its reader    *)
(*                             and writer threads, its poll loop and the  *)
(*                             external engine process                    *)
(* Text is modelled as TLA+ strings, character by character.  Unsigned    *)
(* numbers (u32, u64) are kept as canonical decimal numerals (strings     *)
(* without sign or leading zeros), since they exceed the integers of the  *)
(* model checker; i32 scores are integers.  An Option is <<>> (None) or   *)
(* <<v>> (Some(v)).                                                       *)
(***************************************************************************)
EXTENDS Integers, Sequences, FiniteSets, TLC

(***************************************************************************)
(* Program constants.                                                      *)
(***************************************************************************)
MAX_OUTPUT_LINES == 100

MULTI_PV == 3

(***************************************************************************)
(* Bounds of the model.                                                    *)
(***************************************************************************)
\* successful spawns of the external process (process ids 1..MaxSpawns)
MaxSpawns == 2

\* lines the processes write to their standard outputs, over the whole run
MaxLines == 2

\* calls of start, stop, start_analysis and stop_analysis that take effect,
\* over the whole run
MaxCalls == 3

\* lines ingested one by one, each chosen freely (SpecIngest)
MaxIngest == 3

\* lines appended one by one to an empty history (SpecHistory)
MaxAppend == 103

\* the moves of a Position command: at most this many
MaxMoves == 2

\* the tokens of an info body given to UciInfo::parse: at most this many
MaxTokens == 4

\* lines of analysis an engine writes before analysis_lines is called
\* (SpecSorted)
MaxPvLines == 3

\* the nodes of a MoveTree, the root among them: at most this many
MaxNodes == 5

\* the nodes delete_node has removed from a MoveTree: at most this many
MaxDeleted == 1

None == << >>

Some(v) == << v >>

(***************************************************************************)
(* Strings: str::trim, str::strip_prefix, str::split_whitespace,           *)
(* [String]::join.                                                         *)
(***************************************************************************)
IsWs(c) == c \in {" ", "\t", "\n", "\r"}

RECURSIVE TrimStart(_)
TrimStart(s) ==
    IF s = "" THEN s
    ELSE IF IsWs(Head(s)) THEN TrimStart(Tail(s)) ELSE s

RECURSIVE TrimEnd(_)
TrimEnd(s) ==
    IF s = "" THEN s
    ELSE IF IsWs(SubSeq(s, Len(s), Len(s)))
         THEN TrimEnd(SubSeq(s, 1, Len(s) - 1))
         ELSE s

\* a faulty variant of trim: the end of the line is left as it is
Trim_start_only(s) == TrimStart(s)

Trim(s) == TrimEnd(TrimStart(s))

StartsWith(s, p) == Len(s) >= Len(p) /\ SubSeq(s, 1, Len(p)) = p

\* Option<&str>: the rest of s after prefix p
StripPrefix(s, p) ==
    IF StartsWith(s, p) THEN Some(SubSeq(s, Len(p) + 1, Len(s))) ELSE None

RECURSIVE SplitFrom(_, _, _)
SplitFrom(s, cur, acc) ==
    IF s = ""
    THEN IF cur = "" THEN acc ELSE Append(acc, cur)
    ELSE IF IsWs(Head(s))
         THEN SplitFrom(Tail(s), "", IF cur = "" THEN acc ELSE Append(acc, cur))
         ELSE SplitFrom(Tail(s), cur \o Head(s), acc)

SplitWhitespace(s) == SplitFrom(s, "", << >>)

\* a faulty variant of join: the separator follows every element
RECURSIVE Join_trailing(_, _)
Join_trailing(xs, sep) ==
    IF xs = << >> THEN ""
    ELSE xs[1] \o sep \o Join_trailing(Tail(xs), sep)

RECURSIVE Join(_, _)
Join(xs, sep) ==
    IF xs = << >> THEN ""
    ELSE IF Len(xs) = 1 THEN xs[1]
    ELSE xs[1] \o sep \o Join(Tail(xs), sep)

(***************************************************************************)
(* Numbers: str::parse::<u32>, ::<u64>, ::<i32>.                           *)
(***************************************************************************)
Digits == {"0", "1", "2", "3", "4", "5", "6", "7", "8", "9"}

DigitVal(c) ==
    CASE c = "0" -> 0 [] c = "1" -> 1 [] c = "2" -> 2 [] c = "3" -> 3
      [] c = "4" -> 4 [] c = "5" -> 5 [] c = "6" -> 6 [] c = "7" -> 7
      [] c = "8" -> 8 [] c = "9" -> 9

RECURSIVE AllDigits(_)
AllDigits(s) == s = "" \/ (Head(s) \in Digits /\ AllDigits(Tail(s)))

RECURSIVE StripZeros(_)
StripZeros(s) ==
    IF Len(s) > 1 /\ Head(s) = "0" THEN StripZeros(Tail(s)) ELSE s

\* a < b for strings of digits of the same length
RECURSIVE LexLess(_, _)
LexLess(a, b) ==
    /\ a # ""
    /\ \/ DigitVal(Head(a)) < DigitVal(Head(b))
       \/ Head(a) = Head(b) /\ LexLess(Tail(a), Tail(b))

\* a < b for canonical numerals
NumLess(a, b) == Len(a) < Len(b) \/ (Len(a) = Len(b) /\ LexLess(a, b))

\* an unsigned integer type's from_str: an optional '+', then digits; Err on
\* an empty string, a lone sign, a non-digit, or a value above max
ParseUnsigned(tok, max) ==
    LET body == IF tok # "" /\ Head(tok) = "+" THEN Tail(tok) ELSE tok
    IN  IF body = "" \/ ~AllDigits(body) THEN None
        ELSE IF NumLess(max, StripZeros(body)) THEN None
        ELSE Some(StripZeros(body))

ParseU32(tok) == ParseUnsigned(tok, "4294967295")

ParseU64(tok) == ParseUnsigned(tok, "18446744073709551615")

\* the value of a canonical numeral that is at most 2^31
RECURSIVE NegVal(_, _)
NegVal(s, acc) == IF s = "" THEN acc ELSE NegVal(Tail(s), acc * 10 - DigitVal(Head(s)))

\* i32::from_str: an optional '+' or '-', then digits; Err outside
\* -2^31 .. 2^31 - 1
ParseI32(tok) ==
    LET neg  == tok # "" /\ Head(tok) = "-"
        body == IF tok # "" /\ Head(tok) \in {"+", "-"} THEN Tail(tok) ELSE tok
    IN  IF body = "" \/ ~AllDigits(body) THEN None
        ELSE IF NumLess(IF neg THEN "2147483648" ELSE "2147483647", StripZeros(body))
             THEN None
        ELSE IF neg THEN Some(NegVal(StripZeros(body), 0))
        ELSE Some(-NegVal(StripZeros(body), 0))

(***************************************************************************)
(* UciCommand and its wire form.                                           *)
(***************************************************************************)
Uci == [t |-> "Uci"]

IsReady == [t |-> "IsReady"]

UciNewGame == [t |-> "UciNewGame"]

SetOption(name, value) == [t |-> "SetOption", name |-> name, value |-> value]

Position(fen, moves) == [t |-> "Position", fen |-> fen, moves |-> moves]

GoInfinite == [t |-> "GoInfinite"]

GoDepth(d) == [t |-> "GoDepth", d |-> d]

Stop == [t |-> "Stop"]

Quit == [t |-> "Quit"]

to_uci_string(cmd) ==
    CASE cmd.t = "Uci" -> "uci"
      [] cmd.t = "IsReady" -> "isready"
      [] cmd.t = "UciNewGame" -> "ucinewgame"
      [] cmd.t = "SetOption" ->
            "setoption name " \o cmd.name \o " value " \o cmd.value
      [] cmd.t = "Position" ->
            "position "
            \o (IF cmd.fen # None THEN "fen " \o cmd.fen[1] ELSE "startpos")
            \o (IF cmd.moves # << >> THEN " moves " \o Join(cmd.moves, " ") ELSE "")
      [] cmd.t = "GoInfinite" -> "go infinite"
      [] cmd.t = "GoDepth" -> "go depth " \o cmd.d
      [] cmd.t = "Stop" -> "stop"
      [] cmd.t = "Quit" -> "quit"

(***************************************************************************)
(* UciOutputKind::parse and UciOutput::new.                                *)
(***************************************************************************)
UciOutputKind_parse(raw) ==
    LET line == Trim(raw)
    IN  IF line = "uciok" THEN [k |-> "UciOk"]
        ELSE IF line = "readyok" THEN [k |-> "ReadyOk"]
        ELSE IF StripPrefix(line, "info ") # None
             THEN [k |-> "Info", s |-> StripPrefix(line, "info ")[1]]
        ELSE IF StripPrefix(line, "bestmove ") # None
             THEN [k |-> "BestMove", s |-> StripPrefix(line, "bestmove ")[1]]
        ELSE IF StripPrefix(line, "id ") # None
             THEN [k |-> "Id", s |-> StripPrefix(line, "id ")[1]]
        ELSE IF StripPrefix(line, "option ") # None
             THEN [k |-> "Option", s |-> StripPrefix(line, "option ")[1]]
        ELSE [k |-> "Other", s |-> line]

UciOutput_new(line) == [raw |-> line, kind |-> UciOutputKind_parse(line)]

(***************************************************************************)
(* Score: i32 arithmetic, display and as_centipawns.  An overflow panics   *)
(* in a build with overflow checks and wraps in a build without.           *)
(***************************************************************************)
I32_MAX == 2147483647

I32_MIN == -I32_MAX - 1

\* a - b in i32: None when the difference is outside i32
Sub32(a, b) ==
    IF \/ b > 0 /\ a < I32_MIN + b
       \/ b < 0 /\ a > I32_MAX + b
    THEN None
    ELSE Some(a - b)

\* i32::abs: None when the value is i32::MIN
Abs32(n) == IF n = I32_MIN THEN None ELSE Some(IF n < 0 THEN -n ELSE n)

\* two digits
Pad2(n) == IF n < 10 THEN "0" \o ToString(n) ELSE ToString(n)

\* format!("{:.2}", cp as f64 / 100.0) without its sign: the quotient is
\* within 1e-8 of a multiple of 0.01, so the two decimals are those of
\* |cp| / 100
Pawns(cp) ==
    LET m     == IF cp >= 0 THEN cp ELSE -(cp + 1)
        carry == cp < 0 /\ m % 100 = 99
        whole == (m \div 100) + (IF carry THEN 1 ELSE 0)
        frac  == IF cp >= 0 THEN m % 100 ELSE ((m % 100) + 1) % 100
    IN  ToString(whole) \o "." \o Pad2(frac)

\* what a call gives: a String, or a panic
Returned(text) == [ok |-> TRUE, text |-> text]

Panic == [ok |-> FALSE, text |-> "attempt to negate with overflow"]

\* Score::display: the set of what the builds of the program give
display(score) ==
    IF score.kind = "cp"
    THEN {Returned(IF score.v >= 0 THEN "+" \o Pawns(score.v)
                   ELSE "-" \o Pawns(score.v))}
    ELSE IF score.v > 0 THEN {Returned("M" \o ToString(score.v))}
    ELSE IF Abs32(score.v) # None
         THEN {Returned("-M" \o ToString(Abs32(score.v)[1]))}
    ELSE \* i32::MIN.abs(): a panic, or i32::MIN again
         {Panic, Returned("-M" \o ToString(score.v))}

\* a faulty variant of as_centipawns: the sign of the count of a mate
\* against is lost
as_centipawns_sign_slip(score) ==
    IF score.kind = "cp" THEN Some(score.v)
    ELSE IF score.v > 0 THEN Sub32(10000, score.v)
    ELSE IF Abs32(score.v) = None THEN None
    ELSE Sub32(-10000, Abs32(score.v)[1])

\* Score::as_centipawns: None when a subtraction overflows
as_centipawns(score) ==
    IF score.kind = "cp" THEN Some(score.v)
    ELSE IF score.v > 0 THEN Sub32(10000, score.v)
    ELSE Sub32(-10000, score.v)

(***************************************************************************)
(* UciInfo and UciInfo::parse.                                             *)
(***************************************************************************)
Centipawns(v) == [kind |-> "cp", v |-> v]

Mate(v) == [kind |-> "mate", v |-> v]

EmptyInfo ==
    [depth |-> None, seldepth |-> None, multipv |-> None, score |-> None,
     nodes |-> None, nps |-> None, time |-> None, pv |-> << >>,
     currmove |-> None, currmovenumber |-> None, hashfull |-> None]

\* the keywords that end a pv
PvStop ==
    {"depth", "seldepth", "multipv", "score", "nodes", "nps", "time",
     "hashfull", "currmove", "currmovenumber", "string", "refutation",
     "currline"}

\* a faulty variant of the inner loop: the keyword that ends the pv is
\* passed over
RECURSIVE PvLoop_skips_keyword(_, _, _)
PvLoop_skips_keyword(tokens, i, pv) ==
    IF i > Len(tokens) THEN << i, pv >>
    ELSE IF tokens[i] \in PvStop THEN << i + 1, pv >>
    ELSE PvLoop_skips_keyword(tokens, i + 1, Append(pv, tokens[i]))

\* the inner loop of the "pv" arm: <<cursor after the pv, the pv>>
RECURSIVE PvLoop(_, _, _)
PvLoop(tokens, i, pv) ==
    IF i > Len(tokens) \/ tokens[i] \in PvStop THEN << i, pv >>
    ELSE PvLoop(tokens, i + 1, Append(pv, tokens[i]))

\* a faulty variant of the "score" arm: without two tokens after "score"
\* the cursor stays where it is
ScoreArm_stalls(tokens, i, info) ==
    IF i + 2 <= Len(tokens)
    THEN CASE tokens[i + 1] = "cp" ->
                << i + 3,
                   IF ParseI32(tokens[i + 2]) # None
                   THEN [info EXCEPT
                           !.score = Some(Centipawns(ParseI32(tokens[i + 2])[1]))]
                   ELSE info >>
           [] tokens[i + 1] = "mate" ->
                << i + 3,
                   IF ParseI32(tokens[i + 2]) # None
                   THEN [info EXCEPT
                           !.score = Some(Mate(ParseI32(tokens[i + 2])[1]))]
                   ELSE info >>
           [] OTHER -> << i + 1, info >>
    ELSE << i, info >>

\* the "score" arm (lines 244-265): score cp <x> or score mate <x>
ScoreArm(tokens, i, info) ==
    IF i + 2 <= Len(tokens)
    THEN CASE tokens[i + 1] = "cp" ->
                << i + 3,
                   IF ParseI32(tokens[i + 2]) # None
                   THEN [info EXCEPT
                           !.score = Some(Centipawns(ParseI32(tokens[i + 2])[1]))]
                   ELSE info >>
           [] tokens[i + 1] = "mate" ->
                << i + 3,
                   IF ParseI32(tokens[i + 2]) # None
                   THEN [info EXCEPT
                           !.score = Some(Mate(ParseI32(tokens[i + 2])[1]))]
                   ELSE info >>
           [] OTHER -> << i + 1, info >>
    ELSE << i + 1, info >>

\* one iteration of the while loop at cursor i (1-based): <<new cursor, info>>
ParseStep(tokens, i, info) ==
    LET tok      == tokens[i]
        hasNext  == i + 1 <= Len(tokens)
    IN  CASE tok = "depth" ->
               IF hasNext
               THEN << i + 2, [info EXCEPT !.depth = ParseU32(tokens[i + 1])] >>
               ELSE << i + 1, info >>
          [] tok = "seldepth" ->
               IF hasNext
               THEN << i + 2, [info EXCEPT !.seldepth = ParseU32(tokens[i + 1])] >>
               ELSE << i + 1, info >>
          [] tok = "multipv" ->
               IF hasNext
               THEN << i + 2, [info EXCEPT !.multipv = ParseU32(tokens[i + 1])] >>
               ELSE << i + 1, info >>
          [] tok = "score" -> ScoreArm(tokens, i, info)
          [] tok = "nodes" ->
               IF hasNext
               THEN << i + 2, [info EXCEPT !.nodes = ParseU64(tokens[i + 1])] >>
               ELSE << i + 1, info >>
          [] tok = "nps" ->
               IF hasNext
               THEN << i + 2, [info EXCEPT !.nps = ParseU64(tokens[i + 1])] >>
               ELSE << i + 1, info >>
          [] tok = "time" ->
               IF hasNext
               THEN << i + 2, [info EXCEPT !.time = ParseU64(tokens[i + 1])] >>
               ELSE << i + 1, info >>
          [] tok = "hashfull" ->
               IF hasNext
               THEN << i + 2, [info EXCEPT !.hashfull = ParseU32(tokens[i + 1])] >>
               ELSE << i + 1, info >>
          [] tok = "currmove" ->
               IF hasNext
               THEN << i + 2, [info EXCEPT !.currmove = Some(tokens[i + 1])] >>
               ELSE << i + 1, info >>
          [] tok = "currmovenumber" ->
               IF hasNext
               THEN << i + 2,
                       [info EXCEPT !.currmovenumber = ParseU32(tokens[i + 1])] >>
               ELSE << i + 1, info >>
          [] tok = "pv" ->
               LET r == PvLoop(tokens, i + 1, info.pv)
               IN  << r[1], [info EXCEPT !.pv = r[2]] >>
          [] OTHER -> << i + 1, info >>

RECURSIVE ParseLoop(_, _, _)
ParseLoop(tokens, i, info) ==
    IF i > Len(tokens) THEN info
    ELSE LET r == ParseStep(tokens, i, info) IN ParseLoop(tokens, r[1], r[2])

UciInfo_parse(info_str) == ParseLoop(SplitWhitespace(info_str), 1, EmptyInfo)

\* a faulty variant of has_analysis: the score is not asked for
has_analysis_no_score(info) == info.depth # None /\ info.pv # << >>

has_analysis(info) == info.depth # None /\ info.score # None /\ info.pv # << >>

(***************************************************************************)
(* The state of the program.                                               *)
(***************************************************************************)
VARIABLES
    \* EngineModel's fields
    running,         \* bool
    analyzing,       \* bool
    output_lines,    \* Vec<UciOutput>
    analysis_lines,  \* HashMap<u32, UciInfo>
    black_to_move,   \* bool
    current_fen,     \* Option<String>
    event_receiver,  \* Option<Receiver>: 0, or the process whose events it receives
    command_sender,  \* Option<Sender>: 0, or the process whose writer it feeds
    process,         \* Option<Child>: 0, or the process of the handle
    poll_task,       \* Option<Task>: 0, or the poll loop of the handle
    dropped,         \* the EngineModel has been dropped
    \* the world around it, per process id
    proc,            \* "none" | "alive" | "dead" (exited, not waited for) | "reaped"
    events,          \* the event channel: events sent and not yet received
    sent,            \* the command channel: every line sent on it
    written,         \* how many lines of sent the writer wrote to standard input
    rpc,             \* reader thread: "none" | "read" | "exiting" | "done"
    wpc,             \* writer thread: "none" | "run" | "done"
    emitted,         \* lines the processes wrote to their standard outputs
    loops,           \* the poll loops the executor still runs
    \* history variables
    calls,           \* calls of the controller that took effect
    appended,        \* every line add_output was called with, in order
    exit_markers,    \* "[Engine exited]" lines appended, per process
    notified,        \* calls of cx.notify() by the poll loops
    last,            \* SpecTraced: the last step, and running/analyzing on entry
    \* a function of uci.rs taken alone
    arg,             \* its argument
    local,           \* UciInfo::parse: its tokens and its info, None outside it
    cursor,          \* UciInfo::parse: the index i of its loop (1-based)
    ret,             \* its result, None before it returns
    \* MoveTree's fields, and what its last operation returned
    nodes,           \* Vec<MoveNode>: the node of id n is nodes[n + 1]
    current_id,      \* MoveNodeId
    returned,        \* None before any call and for (); else Some(value)
    \* stop() followed statement by statement (SpecStop)
    stop_pc,         \* the statement it is at, and its local child (0: none)
    \* what the writer threads have written
    stdin            \* per process: the writes to its standard input, in order

ctl == << running, analyzing, output_lines, analysis_lines, black_to_move,
          current_fen, event_receiver, command_sender, process, poll_task >>

world == << proc, events, sent, written, rpc, wpc, emitted, loops >>

call == << arg, local, cursor, ret >>

tree == << nodes, current_id, returned >>

vars == << ctl, dropped, world, calls, appended, exit_markers, notified, last,
           call, tree, stop_pc, stdin >>

Procs == 1 .. MaxSpawns

EmptyMap == [k \in {} |-> EmptyInfo]

\* the positions the consumer asks about: White to move, Black to move
FenW == "4k3/8/8/8/8/8/4P3/4K3 w - - 0 1"

FenB == "4k3/4p3/8/8/8/8/8/4K3 b - - 0 1"

Fens == {FenW, FenB}

\* the move a principal variation of a position starts with
PvOf(fen) == IF fen = FenW THEN "e2e4" ELSE "e7e5"

\* what an engine writes while it searches fen: a line of analysis
InfoLines(fen) == {"info depth 1 score cp 10 pv " \o PvOf(fen)}

\* what an engine writes whatever it is doing
IdleLines == {"readyok"}

Output(line) == [t |-> "Output", line |-> line]

Exited == [t |-> "Exited"]

Error(msg) == [t |-> "Error", msg |-> msg]

ReadErrors == {"stream did not contain valid UTF-8"}

Off == [op |-> "off", run |-> FALSE, ana |-> FALSE]

Step(op) == [op |-> op, run |-> running, ana |-> analyzing]

Trace(op) == last' = IF last = Off THEN Off ELSE Step(op)

\* the fields that add_output and the event processing read and write
Fields ==
    [running |-> running, analyzing |-> analyzing, output_lines |-> output_lines,
     analysis_lines |-> analysis_lines, appended |-> appended]

Install(st) ==
    /\ running' = st.running
    /\ analyzing' = st.analyzing
    /\ output_lines' = st.output_lines
    /\ analysis_lines' = st.analysis_lines
    /\ appended' = st.appended

CountOf(seq, x) == Cardinality({i \in 1 .. Len(seq) : seq[i] = x})

(***************************************************************************)
(* EngineModel::add_output.                                                *)
(***************************************************************************)
\* lines 356-363: an info line with depth, score and pv replaces its entry
add_output_analysis(map, line) ==
    LET output == UciOutput_new(line)
    IN  IF output.kind.k = "Info"
        THEN LET info   == UciInfo_parse(output.kind.s)
                 pv_num == IF info.multipv # None THEN info.multipv[1] ELSE "1"
             IN  IF has_analysis(info)
                 THEN [k \in DOMAIN map \cup {pv_num} |->
                          IF k = pv_num THEN info ELSE map[k]]
                 ELSE map
        ELSE map

\* a faulty variant of the trim: one line too many is kept
add_output_lines_off_by_one(lines, line) ==
    LET pushed == Append(lines, UciOutput_new(line))
    IN  IF Len(pushed) > MAX_OUTPUT_LINES
        THEN SubSeq(pushed, Len(pushed) - MAX_OUTPUT_LINES, Len(pushed))
        ELSE pushed

\* lines 365-371: push, then drain(0..excess)
add_output_lines(lines, line) ==
    LET pushed == Append(lines, UciOutput_new(line))
    IN  IF Len(pushed) > MAX_OUTPUT_LINES
        THEN SubSeq(pushed, Len(pushed) - MAX_OUTPUT_LINES + 1, Len(pushed))
        ELSE pushed

add_output(st, line) ==
    [st EXCEPT !.analysis_lines = add_output_analysis(@, line),
               !.output_lines = add_output_lines(@, line),
               !.appended = Append(@, line)]

\* a faulty variant of the match: Exited resets running only
process_event_exit_keeps_analyzing(st, event) ==
    CASE event.t = "Output" -> add_output(st, event.line)
      [] event.t = "Exited" ->
            add_output([st EXCEPT !.running = FALSE], "[Engine exited]")
      [] event.t = "Error" -> add_output(st, "[Error: " \o event.msg \o "]")

\* a faulty variant of the match: Exited leaves running and analyzing alone
process_event_exit_ignored(st, event) ==
    CASE event.t = "Output" -> add_output(st, event.line)
      [] event.t = "Exited" -> add_output(st, "[Engine exited]")
      [] event.t = "Error" -> add_output(st, "[Error: " \o event.msg \o "]")

\* a faulty variant of the match: Exited also clears the analysis map
process_event_exit_clears_analysis(st, event) ==
    CASE event.t = "Output" -> add_output(st, event.line)
      [] event.t = "Exited" ->
            add_output([st EXCEPT !.running = FALSE, !.analyzing = FALSE,
                                  !.analysis_lines = EmptyMap],
                       "[Engine exited]")
      [] event.t = "Error" -> add_output(st, "[Error: " \o event.msg \o "]")

\* the match of process_pending_events, for one event
process_event(st, event) ==
    CASE event.t = "Output" -> add_output(st, event.line)
      [] event.t = "Exited" ->
            add_output([st EXCEPT !.running = FALSE, !.analyzing = FALSE],
                       "[Engine exited]")
      [] event.t = "Error" -> add_output(st, "[Error: " \o event.msg \o "]")

RECURSIVE process_events(_, _)
process_events(st, evs) ==
    IF evs = << >> THEN st
    ELSE process_events(process_event(st, Head(evs)), Tail(evs))

\* a faulty variant of send_command: a channel that takes lines although
\* its receiving end is gone
send_command_unchecked(chan, tx, w, cmd) ==
    IF tx # 0
    THEN [chan EXCEPT ![tx] = Append(@, to_uci_string(cmd))]
    ELSE chan

\* send_command with sender tx (0: None) and writer threads w: the line joins
\* the channel unless there is no sender or the writer thread, which holds
\* the receiving end, has ended
send_command(chan, tx, w, cmd) ==
    IF tx # 0 /\ w[tx] = "run"
    THEN [chan EXCEPT ![tx] = Append(@, to_uci_string(cmd))]
    ELSE chan

RECURSIVE send_commands(_, _, _, _)
send_commands(chan, tx, w, cmds) ==
    IF cmds = << >> THEN chan
    ELSE send_commands(send_command(chan, tx, w, Head(cmds)), tx, w, Tail(cmds))

\* dropping a Receiver discards what its channel still holds
DropReceiver(evs) ==
    IF event_receiver # 0 THEN [evs EXCEPT ![event_receiver] = << >>] ELSE evs

\* a faulty variant: a dropped Task is detached, and its loop runs on
DropTask_detaches(ls) == ls

\* dropping a Task cancels it: the executor runs its loop no more
DropTask(ls) == ls \ {poll_task}

(***************************************************************************)
(* The external engine: a UCI engine that searches the position it was     *)
(* last given from "go infinite" until "stop", and reports on that         *)
(* position while it searches.                                             *)
(***************************************************************************)
\* <<position, searching>> after the engine has read these lines
RECURSIVE EngineAfter(_, _)
EngineAfter(lines, st) ==
    IF lines = << >> THEN st
    ELSE LET l == Head(lines)
         IN  EngineAfter(Tail(lines),
                 IF \E f \in Fens : l = "position fen " \o f
                 THEN << CHOOSE f \in Fens : l = "position fen " \o f, st[2] >>
                 ELSE IF l = "go infinite" THEN << st[1], TRUE >>
                 ELSE IF l = "stop" THEN << st[1], FALSE >>
                 ELSE st)

\* what process p may write to its standard output now
EngineLines(p) ==
    LET st == EngineAfter(SubSeq(sent[p], 1, written[p]), << "", FALSE >>)
    IN  IdleLines \cup (IF st[2] /\ st[1] # "" THEN InfoLines(st[1]) ELSE {})

\* the controller is not inside stop()
NotInStop == [at |-> "idle", child |-> 0]

\* MoveNode::root (move_tree.rs lines 27-35)
MoveNode_root ==
    [id |-> 0, parent_id |-> None, position |-> "default", san |-> None,
     children |-> << >>]

\* MoveTree::new (lines 99-104)
MoveTree_new == nodes = << MoveNode_root >> /\ current_id = 0 /\ returned = None

\* EngineModel::new, no process yet, and MoveTree::new
InitState ==
    /\ running = FALSE
    /\ analyzing = FALSE
    /\ output_lines = << >>
    /\ analysis_lines = EmptyMap
    /\ black_to_move = FALSE
    /\ current_fen = None
    /\ event_receiver = 0
    /\ command_sender = 0
    /\ process = 0
    /\ poll_task = 0
    /\ dropped = FALSE
    /\ proc = [p \in Procs |-> "none"]
    /\ events = [p \in Procs |-> << >>]
    /\ sent = [p \in Procs |-> << >>]
    /\ written = [p \in Procs |-> 0]
    /\ rpc = [p \in Procs |-> "none"]
    /\ wpc = [p \in Procs |-> "none"]
    /\ emitted = 0
    /\ loops = {}
    /\ calls = 0
    /\ appended = << >>
    /\ exit_markers = [p \in Procs |-> 0]
    /\ notified = 0
    /\ MoveTree_new
    /\ stop_pc = NotInStop
    /\ stdin = [p \in Procs |-> << >>]

\* no function of uci.rs is being followed on its own
NoCall == arg = None /\ local = None /\ cursor = 0 /\ ret = None

Init == InitState /\ last = Off /\ NoCall

InitTraced ==
    InitState /\ last = [op |-> "new", run |-> FALSE, ana |-> FALSE] /\ NoCall

(***************************************************************************)
(* EngineModel::start.                                                     *)
(***************************************************************************)
\* line 124: the early return
start_returns_early == running

\* a faulty variant of the failed spawn: running is set before the spawn
start_spawn_failed_running ==
    /\ running' = TRUE
    /\ UNCHANGED << analyzing, output_lines, analysis_lines, black_to_move,
                    current_fen, event_receiver, command_sender, process,
                    poll_task, world, appended >>

\* lines 129-134: Command::spawn fails and start returns the error
start_spawn_failed == UNCHANGED << ctl, world, appended >>

\* a faulty variant of the handshake: isready is left out
handshake_no_isready == << Uci, SetOption("MultiPV", ToString(MULTI_PV)) >>

\* lines 189-196: the commands start sends
handshake == << Uci, IsReady, SetOption("MultiPV", ToString(MULTI_PV)) >>

\* lines 129-200 with process p spawned
start_spawned(p) ==
    /\ proc' = [proc EXCEPT ![p] = "alive"]
    /\ rpc' = [rpc EXCEPT ![p] = "read"]
    /\ wpc' = [wpc EXCEPT ![p] = "run"]
    /\ process' = p
    /\ event_receiver' = p
    /\ events' = DropReceiver(events)
    /\ command_sender' = p
    /\ poll_task' = p
    /\ loops' = DropTask(loops) \cup {p}
    /\ sent' = send_commands(sent, p, wpc', handshake)
    /\ Install(add_output([Fields EXCEPT !.running = TRUE], "[Engine started]"))
    /\ UNCHANGED << black_to_move, current_fen, written, emitted >>

start ==
    /\ UNCHANGED << notified, call, tree, stop_pc, stdin >>
    /\ ~dropped
    /\ UNCHANGED << dropped, exit_markers >>
    /\ IF start_returns_early
       THEN /\ Trace("start")
            /\ UNCHANGED << ctl, world, calls, appended >>
       ELSE \/ /\ Trace("start")
               /\ calls < MaxCalls
               /\ calls' = calls + 1
               /\ \E p \in Procs :
                    /\ proc[p] = "none"
                    /\ \A q \in Procs : q < p => proc[q] # "none"
                    /\ start_spawned(p)
            \/ /\ Trace("start_err")
               /\ UNCHANGED calls
               /\ start_spawn_failed

(***************************************************************************)
(* EngineModel::stop_analysis, start_analysis, stop and Drop.              *)
(***************************************************************************)
\* line 335: the early return
\* a faulty variant: stop_analysis without its early return
stop_analysis_never_returns_early == FALSE

stop_analysis_returns_early == ~analyzing

\* a faulty variant of stop_analysis: a failed send is treated as an
\* error, and the call returns before line 340
stop_analysis_checks_send ==
    /\ UNCHANGED << notified, call, tree, stop_pc, stdin >>
    /\ ~dropped
    /\ Trace("stop_analysis")
    /\ UNCHANGED << dropped, exit_markers, appended >>
    /\ IF stop_analysis_returns_early
       THEN UNCHANGED << ctl, world, calls >>
       ELSE /\ calls < MaxCalls
            /\ calls' = calls + 1
            /\ sent' = send_command(sent, command_sender, wpc, Stop)
            /\ analyzing' = (sent' = sent)
            /\ UNCHANGED << running, output_lines, analysis_lines, black_to_move,
                            current_fen, event_receiver, command_sender, process,
                            poll_task, proc, events, written, rpc, wpc, emitted,
                            loops >>

stop_analysis ==
    /\ UNCHANGED << notified, call, tree, stop_pc, stdin >>
    /\ ~dropped
    /\ Trace("stop_analysis")
    /\ UNCHANGED << dropped, exit_markers, appended >>
    /\ IF stop_analysis_returns_early
       THEN UNCHANGED << ctl, world, calls >>
       ELSE /\ calls < MaxCalls
            /\ calls' = calls + 1
            /\ sent' = send_command(sent, command_sender, wpc, Stop)
            /\ analyzing' = FALSE
            /\ UNCHANGED << running, output_lines, analysis_lines, black_to_move,
                            current_fen, event_receiver, command_sender, process,
                            poll_task, proc, events, written, rpc, wpc, emitted,
                            loops >>

\* a faulty variant: start_analysis also returns early while analyzing
start_analysis_returns_early_when_analyzing == ~running \/ analyzing

\* a faulty variant: start_analysis without its early return
start_analysis_never_returns_early == FALSE

\* line 304: the early return
start_analysis_returns_early == ~running

\* a faulty variant: the side to move read from the first field
fen_black_to_move_first_field(fen) ==
    LET fields == SplitWhitespace(fen)
    IN  IF Len(fields) >= 1 THEN fields[1] = "b" ELSE FALSE

\* lines 318-321: the second whitespace-separated field of the FEN is "b"
fen_black_to_move(fen) ==
    LET fields == SplitWhitespace(fen)
    IN  IF Len(fields) >= 2 THEN fields[2] = "b" ELSE FALSE

start_analysis(fen) ==
    /\ UNCHANGED << notified, call, tree, stop_pc, stdin >>
    /\ ~dropped
    /\ Trace("start_analysis")
    /\ UNCHANGED << dropped, exit_markers, appended >>
    /\ IF start_analysis_returns_early
       THEN UNCHANGED << ctl, world, calls >>
       ELSE /\ calls < MaxCalls
            /\ calls' = calls + 1
            /\ sent' = send_commands(sent, command_sender, wpc,
                         (IF analyzing THEN << Stop >> ELSE << >>)
                         \o << Position(Some(fen), << >>), GoInfinite >>)
            /\ current_fen' = Some(fen)
            /\ analysis_lines' = EmptyMap
            /\ black_to_move' = fen_black_to_move(fen)
            /\ analyzing' = TRUE
            /\ UNCHANGED << running, output_lines, event_receiver, command_sender,
                            process, poll_task, proc, events, written, rpc, wpc,
                            emitted, loops >>

\* a faulty variant: stop without its early return
stop_never_returns_early == FALSE

\* line 272: the early return
stop_returns_early == ~running

\* a faulty variant of stop: the events still queued are ingested before
\* the receiver is dropped
stop_body_drains ==
    LET st == process_events(Fields,
                 IF event_receiver # 0 THEN events[event_receiver] ELSE << >>)
    IN  /\ sent' = send_commands(sent, command_sender, wpc,
                     (IF analyzing THEN << Stop >> ELSE << >>) \o << Quit >>)
        /\ command_sender' = 0
        /\ event_receiver' = 0
        /\ events' = DropReceiver(events)
        /\ poll_task' = 0
        /\ loops' = DropTask(loops)
        /\ process' = 0
        /\ proc' = IF process # 0 THEN [proc EXCEPT ![process] = "reaped"]
                   ELSE proc
        /\ Install(add_output([st EXCEPT !.running = FALSE,
                                         !.analyzing = FALSE],
                              "[Engine stopped]"))
        /\ UNCHANGED << black_to_move, current_fen, written, rpc, wpc, emitted >>

\* lines 276-299: stop after the early return
stop_body ==
    /\ sent' = send_commands(sent, command_sender, wpc,
                 (IF analyzing THEN << Stop >> ELSE << >>) \o << Quit >>)
    /\ command_sender' = 0
    /\ event_receiver' = 0
    /\ events' = DropReceiver(events)
    /\ poll_task' = 0
    /\ loops' = DropTask(loops)
    \* process.take(), kill and wait
    /\ process' = 0
    /\ proc' = IF process # 0 THEN [proc EXCEPT ![process] = "reaped"] ELSE proc
    /\ Install(add_output([Fields EXCEPT !.running = FALSE, !.analyzing = FALSE],
                          "[Engine stopped]"))
    /\ UNCHANGED << black_to_move, current_fen, written, rpc, wpc, emitted >>

stop ==
    /\ UNCHANGED << notified, call, tree, stop_pc, stdin >>
    /\ ~dropped
    /\ Trace("stop")
    /\ UNCHANGED << dropped, exit_markers >>
    /\ IF stop_returns_early
       THEN UNCHANGED << ctl, world, calls, appended >>
       ELSE /\ calls < MaxCalls
            /\ calls' = calls + 1
            /\ stop_body

\* Drop for EngineModel: stop(), then the fields are dropped: the channel
\* ends, the Task (which cancels it) and the Child (which neither kills
\* nor waits for its process)
drop ==
    /\ UNCHANGED << notified, call, tree, stop_pc, stdin >>
    /\ ~dropped
    /\ dropped' = TRUE
    /\ Trace("drop")
    /\ UNCHANGED << calls, exit_markers >>
    /\ IF stop_returns_early
       THEN /\ command_sender' = 0
            /\ event_receiver' = 0
            /\ events' = DropReceiver(events)
            /\ poll_task' = 0
            /\ loops' = DropTask(loops)
            /\ process' = 0
            /\ UNCHANGED << running, analyzing, output_lines, analysis_lines,
                            appended, black_to_move, current_fen, proc, sent,
                            written, rpc, wpc, emitted >>
       ELSE stop_body

(***************************************************************************)
(* EngineModel::run_event_loop and process_pending_events: one wake of     *)
(* poll loop l.                                                            *)
(***************************************************************************)
\* lines 236-245: what try_recv collects; nothing when there is no receiver
collected ==
    IF event_receiver # 0 THEN events[event_receiver] ELSE << >>

\* a faulty variant: the drain reports events whether it found any or not
had_events_always(evs) == TRUE

\* lines 244-249 and 267: the value process_pending_events returns
had_events(evs) == evs # << >>

\* a faulty variant of the drain: one event for each wake
process_pending_events_one ==
    LET rx  == event_receiver
        evs == IF rx # 0 /\ events[rx] # << >> THEN << Head(events[rx]) >>
               ELSE << >>
        st  == process_events(Fields, evs)
    IN  /\ Install(st)
        /\ events' = IF evs # << >> THEN [events EXCEPT ![rx] = Tail(@)]
                     ELSE events
        /\ exit_markers' =
             IF rx # 0
             THEN [exit_markers EXCEPT ![rx] =
                     @ + CountOf(st.appended, "[Engine exited]")
                       - CountOf(appended, "[Engine exited]")]
             ELSE exit_markers

\* lines 235-268, called with the entity alive and running
process_pending_events ==
    LET rx  == event_receiver
        evs == IF rx # 0 THEN events[rx] ELSE << >>
        st  == process_events(Fields, evs)
    IN  /\ Install(st)
        /\ events' = IF rx # 0 THEN [events EXCEPT ![rx] = << >>] ELSE events
        /\ exit_markers' =
             IF rx # 0
             THEN [exit_markers EXCEPT ![rx] =
                     @ + CountOf(st.appended, "[Engine exited]")
                       - CountOf(appended, "[Engine exited]")]
             ELSE exit_markers

\* a faulty variant of the loop: lines 213-215 are missing, and a wake
\* drains whether the session is running or not
wake_goes_on(l) ==
    /\ UNCHANGED << call, tree, stop_pc, stdin >>
    /\ l \in loops
    /\ Trace("wake")
    /\ UNCHANGED << dropped, calls, black_to_move, current_fen, event_receiver,
                    command_sender, process, poll_task, proc, sent, written, rpc,
                    wpc, emitted >>
    /\ IF dropped
       THEN /\ loops' = loops \ {l}
            /\ UNCHANGED << running, analyzing, output_lines, analysis_lines,
                            appended, events, exit_markers, notified >>
       ELSE /\ process_pending_events
            /\ notified' = IF had_events(collected) THEN notified + 1 ELSE notified
            /\ UNCHANGED loops

wake(l) ==
    /\ UNCHANGED << call, tree, stop_pc, stdin >>
    /\ l \in loops
    /\ Trace("wake")
    /\ UNCHANGED << dropped, calls, black_to_move, current_fen, event_receiver,
                    command_sender, process, poll_task, proc, sent, written, rpc,
                    wpc, emitted >>
    /\ IF dropped \/ ~running
       THEN \* the entity is gone, or engine.running is false: the loop ends
            /\ loops' = loops \ {l}
            /\ UNCHANGED << running, analyzing, output_lines, analysis_lines,
                            appended, events, exit_markers, notified >>
       ELSE /\ process_pending_events
            \* lines 219-221: one cx.notify() if the drain had events
            /\ notified' = IF had_events(collected) THEN notified + 1 ELSE notified
            /\ UNCHANGED loops

(***************************************************************************)
(* The writer thread of process p (lines 165-175).                         *)
(***************************************************************************)
\* a faulty variant of line 168: write! for writeln!
write_no_newline(cmd) == cmd

\* line 168: writeln!(writer, "{}", cmd)
writeln(cmd) == cmd \o "\n"

writer(p) ==
    /\ UNCHANGED << notified, call, tree, stop_pc >>
    /\ wpc[p] = "run"
    /\ Trace("thread")
    /\ UNCHANGED << ctl, dropped, proc, events, sent, rpc, emitted, loops,
                    calls, appended, exit_markers >>
    /\ IF written[p] < Len(sent[p])
       THEN \* recv gives the next line; writing to a process that is gone fails
            IF proc[p] = "alive"
            THEN /\ written' = [written EXCEPT ![p] = @ + 1]
                 /\ stdin' = [stdin EXCEPT
                                ![p] = Append(@, writeln(sent[p][written[p] + 1]))]
                 /\ UNCHANGED wpc
            ELSE /\ wpc' = [wpc EXCEPT ![p] = "done"]
                 /\ UNCHANGED << written, stdin >>
       ELSE \* recv blocks while the Sender lives, and fails once it is dropped
            /\ command_sender # p
            /\ wpc' = [wpc EXCEPT ![p] = "done"]
            /\ UNCHANGED << written, stdin >>

(***************************************************************************)
(* The reader thread of process p (lines 146-162), with the process's      *)
(* writes to its standard output.                                          *)
(***************************************************************************)
\* Sender::send: fails, and sends nothing, once the Receiver is dropped
event_send(p, event) ==
    IF event_receiver = p THEN [events EXCEPT ![p] = Append(@, event)] ELSE events

\* Ok(text): a line arrives and is sent on; a failed send breaks the loop,
\* and the send of Exited after the loop fails too
reader_line(p) ==
    /\ UNCHANGED << notified, call, tree, stop_pc, stdin >>
    /\ rpc[p] = "read"
    /\ proc[p] = "alive"
    /\ emitted < MaxLines
    /\ \E line \in EngineLines(p) : events' = event_send(p, Output(line))
    /\ emitted' = emitted + 1
    /\ rpc' = IF event_receiver = p THEN rpc ELSE [rpc EXCEPT ![p] = "done"]
    /\ Trace("thread")
    /\ UNCHANGED << ctl, dropped, proc, sent, written, wpc, loops, calls,
                    appended, exit_markers >>

\* a faulty variant of the Err arm: no break, the loop reads on
reader_error_reads_on(p) ==
    /\ UNCHANGED << notified, call, tree, stop_pc, stdin >>
    /\ rpc[p] = "read"
    /\ proc[p] = "alive"
    /\ emitted < MaxLines
    /\ \E msg \in ReadErrors : events' = event_send(p, Error(msg))
    /\ emitted' = emitted + 1
    /\ Trace("thread")
    /\ UNCHANGED << ctl, dropped, proc, sent, written, rpc, wpc, loops, calls,
                    appended, exit_markers >>

\* Err(e): the process wrote a line that cannot be read (io::Error)
reader_error(p) ==
    /\ UNCHANGED << notified, call, tree, stop_pc, stdin >>
    /\ rpc[p] = "read"
    /\ proc[p] = "alive"
    /\ emitted < MaxLines
    /\ \E msg \in ReadErrors : events' = event_send(p, Error(msg))
    /\ emitted' = emitted + 1
    /\ rpc' = [rpc EXCEPT ![p] = "exiting"]
    /\ Trace("thread")
    /\ UNCHANGED << ctl, dropped, proc, sent, written, wpc, loops, calls,
                    appended, exit_markers >>

\* the send of Exited after the loop: after a read error, or at the end of
\* the stream of a process that is gone
reader_exit(p) ==
    /\ UNCHANGED << notified, call, tree, stop_pc, stdin >>
    /\ \/ rpc[p] = "exiting"
       \/ rpc[p] = "read" /\ proc[p] \in {"dead", "reaped"}
    /\ events' = event_send(p, Exited)
    /\ rpc' = [rpc EXCEPT ![p] = "done"]
    /\ Trace("thread")
    /\ UNCHANGED << ctl, dropped, proc, sent, written, wpc, emitted, loops,
                    calls, appended, exit_markers >>

\* the process ends by itself: it crashes, or obeys "quit", or gives up
\* when its standard input closes
process_exit(p) ==
    /\ UNCHANGED << notified, call, tree, stop_pc, stdin >>
    /\ proc[p] = "alive"
    /\ proc' = [proc EXCEPT ![p] = "dead"]
    /\ Trace("thread")
    /\ UNCHANGED << ctl, dropped, events, sent, written, rpc, wpc, emitted,
                    loops, calls, appended, exit_markers >>

Next ==
    \/ start
    \/ stop
    \/ \E fen \in Fens : start_analysis(fen)
    \/ stop_analysis
    \/ drop
    \/ \E l \in Procs : wake(l)
    \/ \E p \in Procs : writer(p)
    \/ \E p \in Procs : reader_line(p)
    \/ \E p \in Procs : reader_error(p)
    \/ \E p \in Procs : reader_exit(p)
    \/ \E p \in Procs : process_exit(p)

\* the program, its threads and its engine processes
Spec == Init /\ [][Next]_vars

\* the same, with the last step recorded in the history variable last
SpecTraced == InitTraced /\ [][Next]_vars

(***************************************************************************)
(* EngineModel::clear_output (lines 374-378): public, and called by        *)
(* nothing in the repository.  The program with a consumer that calls it.  *)
(***************************************************************************)
clear_output ==
    /\ ~dropped
    /\ calls < MaxCalls
    /\ calls' = calls + 1
    /\ output_lines' = << >>
    /\ Trace("clear_output")
    /\ UNCHANGED << running, analyzing, analysis_lines, black_to_move,
                    current_fen, event_receiver, command_sender, process,
                    poll_task, dropped, world, appended, exit_markers, notified,
                    call, tree, stop_pc, stdin >>

NextConsumer == Next \/ clear_output

SpecConsumer == Init /\ [][NextConsumer]_vars

\* a wake that finds the controller gone or the session not running
wake_ends(l) == (dropped \/ ~running) /\ wake(l)

\* the timer of line 209 fires and the executor wakes the loop: a loop
\* that is to end at its next wake does wake
WakesFair == \A l \in Procs : WF_vars(wake_ends(l))

SpecWakesFair == Spec /\ WakesFair

(***************************************************************************)
(* EngineModel::stop (lines 271-300) statement by statement, with the      *)
(* threads and the process running between its statements.  stop() runs    *)
(* on the thread of the controller: no other call of the controller and    *)
(* no wake of a poll loop happens inside it.                               *)
(***************************************************************************)
\* a faulty variant of the order: the process is killed and waited for
\* before the channels are dropped
stop_order_kill_first ==
    << "stop_analysis", "quit", "kill", "wait", "drop_sender", "drop_receiver",
       "drop_task", "mark", "idle" >>

\* the statements of stop after its early return, in the order of lines
\* 277-299, and back to the caller
stop_order ==
    << "stop_analysis", "quit", "drop_sender", "drop_receiver", "drop_task",
       "kill", "wait", "mark", "idle" >>

\* the statement after statement at
after(at) ==
    stop_order[1 + CHOOSE i \in 1 .. Len(stop_order) - 1 : stop_order[i] = at]

\* statement at is done, and what it leaves alone besides the variables
\* given
stop_step(at, changed) ==
    /\ stop_pc.at = at
    /\ Trace("stop")
    /\ UNCHANGED << dropped, calls, exit_markers, notified, call, tree, stdin,
                    black_to_move, current_fen, written, rpc, wpc, emitted >>
    /\ \A v \in {"sent", "command_sender", "event_receiver", "poll_task",
                 "process", "proc", "st"} \ changed :
         CASE v = "sent" -> UNCHANGED sent
           [] v = "command_sender" -> UNCHANGED command_sender
           [] v = "event_receiver" -> UNCHANGED << event_receiver, events >>
           [] v = "poll_task" -> UNCHANGED << poll_task, loops >>
           [] v = "process" -> UNCHANGED process
           [] v = "proc" -> UNCHANGED proc
           [] v = "st" -> UNCHANGED << running, analyzing, output_lines,
                                       analysis_lines, appended >>

\* lines 272-274: the early return, or on to the first statement
stop_enter ==
    /\ stop_pc.at = "idle"
    /\ ~dropped
    /\ Trace("stop")
    /\ UNCHANGED << ctl, dropped, world, appended, exit_markers, notified, call,
                    tree, stdin >>
    /\ IF stop_returns_early
       THEN UNCHANGED << calls, stop_pc >>
       ELSE /\ calls < MaxCalls
            /\ calls' = calls + 1
            /\ stop_pc' = [at |-> stop_order[1], child |-> 0]

\* lines 277-279: stop_analysis() if analyzing
stop_stop_analysis ==
    /\ stop_step("stop_analysis", {"sent", "st"})
    /\ sent' = IF stop_analysis_returns_early THEN sent
               ELSE send_command(sent, command_sender, wpc, Stop)
    /\ analyzing' = FALSE
    /\ UNCHANGED << running, output_lines, analysis_lines, appended >>
    /\ stop_pc' = [stop_pc EXCEPT !.at = after("stop_analysis")]

\* line 282
stop_quit ==
    /\ stop_step("quit", {"sent"})
    /\ sent' = send_command(sent, command_sender, wpc, Quit)
    /\ stop_pc' = [stop_pc EXCEPT !.at = after("quit")]

\* a faulty variant of line 285: the controller keeps its Sender
stop_keeps_sender ==
    /\ stop_step("drop_sender", {})
    /\ stop_pc' = [stop_pc EXCEPT !.at = after("drop_sender")]

\* line 285
stop_drop_sender ==
    /\ stop_step("drop_sender", {"command_sender"})
    /\ command_sender' = 0
    /\ stop_pc' = [stop_pc EXCEPT !.at = after("drop_sender")]

\* line 286
stop_drop_receiver ==
    /\ stop_step("drop_receiver", {"event_receiver"})
    /\ event_receiver' = 0
    /\ events' = DropReceiver(events)
    /\ stop_pc' = [stop_pc EXCEPT !.at = after("drop_receiver")]

\* line 289
stop_drop_task ==
    /\ stop_step("drop_task", {"poll_task"})
    /\ poll_task' = 0
    /\ loops' = DropTask(loops)
    /\ stop_pc' = [stop_pc EXCEPT !.at = after("drop_task")]

\* lines 292-293: process.take() and child.kill(), which fails, and is
\* ignored, for a process that has ended
stop_kill ==
    /\ stop_step("kill", {"process", "proc"})
    /\ process' = 0
    /\ proc' = IF process # 0 /\ proc[process] = "alive"
               THEN [proc EXCEPT ![process] = "dead"]
               ELSE proc
    /\ stop_pc' = [at |-> after("kill"), child |-> process]

\* line 294: child.wait() returns once the process has ended
stop_wait ==
    /\ stop_step("wait", {"proc"})
    /\ stop_pc.child # 0 => proc[stop_pc.child] # "alive"
    /\ proc' = IF stop_pc.child # 0
               THEN [proc EXCEPT ![stop_pc.child] = "reaped"]
               ELSE proc
    /\ stop_pc' = [at |-> after("wait"), child |-> 0]

\* lines 297-299
stop_mark ==
    /\ stop_step("mark", {"st"})
    /\ Install(add_output([Fields EXCEPT !.running = FALSE, !.analyzing = FALSE],
                          "[Engine stopped]"))
    /\ stop_pc' = [stop_pc EXCEPT !.at = after("mark")]

\* the controller is called, or a poll loop wakes, outside stop()
outside_stop(A) == stop_pc.at = "idle" /\ A

NextStop ==
    \/ outside_stop(start)
    \/ \E fen \in Fens : outside_stop(start_analysis(fen))
    \/ \E l \in Procs : outside_stop(wake(l))
    \/ stop_enter
    \/ stop_stop_analysis
    \/ stop_quit
    \/ stop_drop_sender
    \/ stop_drop_receiver
    \/ stop_drop_task
    \/ stop_kill
    \/ stop_wait
    \/ stop_mark
    \/ \E p \in Procs : writer(p)
    \/ \E p \in Procs : reader_line(p)
    \/ \E p \in Procs : reader_error(p)
    \/ \E p \in Procs : reader_exit(p)
    \/ \E p \in Procs : process_exit(p)

SpecStop == Init /\ [][NextStop]_vars

\* a step of the writer thread that does not wait for the process: every
\* step but a write to a process that is running, which may not read
writer_unblocked(p) ==
    writer(p) /\ ~(written[p] < Len(sent[p]) /\ proc[p] = "alive")

\* the operating system schedules the threads: a thread that can go on
\* without its process does go on.  Nothing is assumed of the processes,
\* of the consumer or of the executor.
ThreadsFair ==
    \A p \in Procs : WF_vars(writer_unblocked(p)) /\ WF_vars(reader_exit(p))

SpecStopFair == SpecStop /\ ThreadsFair

(***************************************************************************)
(* add_output on its own, as the tests of the repository drive it.         *)
(***************************************************************************)
IngestLines ==
    {"info depth 20 score cp 35 pv e2e4",
     "info depth 22 multipv 1 score mate -2 pv g8f6",
     "info depth 20 multipv 2 score cp 15 pv d2d4",
     "info depth 20 pv e2e4",
     "info depth 20 score cp 35",
     "info score mate 3 pv e2e4",
     "info depth 15 currmove g1f3 currmovenumber 5",
     "bestmove e2e4 ponder e7e5",
     "[Engine started]"}

ingest ==
    /\ UNCHANGED << notified, call, tree, stop_pc, stdin >>
    /\ Len(appended) < MaxIngest
    /\ \E line \in IngestLines : Install(add_output(Fields, line))
    /\ UNCHANGED << black_to_move, current_fen, event_receiver, command_sender,
                    process, poll_task, dropped, world, calls, exit_markers, last >>

NextIngest == ingest

SpecIngest == Init /\ [][NextIngest]_vars

\* the n-th line of a long output: analysis, a currmove update, a marker
HistoryLine(n) ==
    CASE n % 3 = 1 -> "info depth " \o ToString(n) \o " score cp 10 pv e2e4"
      [] n % 3 = 2 -> "info depth " \o ToString(n) \o " currmove e2e4"
      [] OTHER -> "[line " \o ToString(n) \o "]"

append_line ==
    /\ UNCHANGED << notified, call, tree, stop_pc, stdin >>
    /\ Len(appended) < MaxAppend
    /\ Install(add_output(Fields, HistoryLine(Len(appended) + 1)))
    /\ UNCHANGED << black_to_move, current_fen, event_receiver, command_sender,
                    process, poll_task, dropped, world, calls, exit_markers, last >>

NextHistory == append_line

SpecHistory == Init /\ [][NextHistory]_vars

(***************************************************************************)
(* The functions of uci.rs on their own.  The variables of the controller  *)
(* stay as EngineModel::new leaves them.                                   *)
(***************************************************************************)
InitCall(args) ==
    InitState /\ last = Off /\ arg \in args /\ local = None /\ cursor = 0
    /\ ret = None

\* what a call of a function of uci.rs leaves alone
CallFrame ==
    UNCHANGED << ctl, dropped, world, calls, appended, exit_markers, notified,
                 last, arg, tree, stop_pc, stdin >>

\* all sequences over S of length at most n
RECURSIVE SeqsUpTo(_, _)
SeqsUpTo(S, n) ==
    IF n = 0 THEN {<< >>}
    ELSE LET shorter == SeqsUpTo(S, n - 1)
         IN  shorter \cup {Append(q, x) : q \in {r \in shorter : Len(r) = n - 1},
                                          x \in S}

\* the commands given to to_uci_string: a u32 is held as its decimal
\* numeral, which is what Display writes
Commands ==
    {Uci, IsReady, UciNewGame, GoInfinite, Stop, Quit}
    \cup {GoDepth(d) : d \in {"0", "1", "20", "4294967295"}}
    \cup {SetOption(n, v) : n \in {"MultiPV", "Hash"}, v \in {"3", "128", ""}}
    \cup {Position(f, m) :
            f \in {None, Some(FenW), Some(FenB),
                   Some("rnbqkbnr/pppppppp/8/8/4P3/8/PPPP1PPP/RNBQKBNR b KQkq - 0 1")},
            m \in SeqsUpTo({"e2e4", "e7e5", "g1f3"}, MaxMoves)}

\* UciCommand::to_uci_string(arg)
encode ==
    /\ ret = None
    /\ ret' = Some(to_uci_string(arg))
    /\ UNCHANGED << local, cursor >>
    /\ CallFrame

NextEncode == encode

SpecEncode == InitCall(Commands) /\ [][NextEncode]_vars

\* the lines given to UciOutputKind::parse: <<leading whitespace, a text
\* with none at its ends, trailing whitespace>>
Texts ==
    {"uciok", "readyok", "info depth 1 pv e2e4", "bestmove e2e4 ponder e7e5",
     "id name Stockfish 16", "option name Hash type spin default 16",
     "uciok extra", "readyokay", "info", "infodepth 1", "bestmove", "id",
     "info  depth 2", "Stockfish 16 by the Stockfish developers", "",
     "Info depth 1", "[Engine started]"}

RawLines ==
    {<< lead, text, trail >> :
        lead \in {"", " ", "\t "}, text \in Texts, trail \in {"", " ", "\r", " \n"}}

\* UciOutputKind::parse(lead + text + trail)
classify ==
    /\ ret = None
    /\ ret' = Some(UciOutputKind_parse(arg[1] \o arg[2] \o arg[3]))
    /\ UNCHANGED << local, cursor >>
    /\ CallFrame

NextClassify == classify

SpecClassify == InitCall(RawLines) /\ [][NextClassify]_vars

\* the tokens an info body is made of
Tokens == {"depth", "score", "cp", "mate", "pv", "e2e4", "7", "nps", "string"}

\* the info bodies given to UciInfo::parse: tokens with one space between
InfoBodies == {Join(ts, " ") : ts \in SeqsUpTo(Tokens, MaxTokens)}

\* lines 201-216: the empty info, the tokens, i = 0
parse_enter ==
    /\ local = None /\ ret = None
    /\ local' = Some([tokens |-> SplitWhitespace(arg), info |-> EmptyInfo])
    /\ cursor' = 1
    /\ UNCHANGED ret
    /\ CallFrame

\* lines 218-333: one iteration of the while loop
parse_iterate ==
    /\ local # None /\ ret = None
    /\ cursor <= Len(local[1].tokens)
    /\ LET r == ParseStep(local[1].tokens, cursor, local[1].info)
       IN  /\ cursor' = r[1]
           /\ local' = Some([local[1] EXCEPT !.info = r[2]])
    /\ UNCHANGED ret
    /\ CallFrame

\* line 335: the loop has ended and info is returned
parse_return ==
    /\ local # None /\ ret = None
    /\ cursor > Len(local[1].tokens)
    /\ ret' = Some(local[1].info)
    /\ UNCHANGED << local, cursor >>
    /\ CallFrame

NextParse == parse_enter \/ parse_iterate \/ parse_return

\* the fields of UciInfo, by the key that sets them
InfoKeys ==
    {"depth", "seldepth", "multipv", "score", "nodes", "nps", "time", "hashfull",
     "currmove", "currmovenumber", "pv"}

\* well-formed values of a key
ValuesOf(key) ==
    CASE key = "score" -> {"cp 10", "mate 2"}
      [] key = "pv" -> {"e2e4", "d2d4 d7d5"}
      [] key = "currmove" -> {"e2e4", "d2d4"}
      [] OTHER -> {"3", "8"}

\* what stands between two occurrences of a key: nothing, or another key
Between == {" ", " nps 5 "}

Occurrence(key, value) == key \o " " \o value

\* the info bodies in which a key occurs twice
RepeatedBodies ==
    {Occurrence(key, a) \o mid \o Occurrence(key, b) :
        key \in InfoKeys, a \in {"3", "8", "cp 10", "mate 2", "e2e4", "d2d4 d7d5",
                                 "d2d4"},
        mid \in Between, b \in {"3", "8", "cp 10", "mate 2", "e2e4", "d2d4 d7d5",
                                "d2d4"}}

\* UciInfo::parse, step by step, of a body with a repeated key
SpecRepeated == InitCall(RepeatedBodies) /\ [][NextParse]_vars

\* the thread that called UciInfo::parse keeps running
SpecParse == InitCall(InfoBodies) /\ [][NextParse]_vars /\ WF_vars(NextParse)

\* the i32 values given to Score
I32Samples ==
    {I32_MIN, I32_MIN + 1, -10001, -10000, -125, -100, -3, -2, -1, 0, 1, 2, 3,
     5, 35, 99, 100, 10000, 10001, I32_MAX - 1, I32_MAX}

Scores == {Centipawns(v) : v \in I32Samples} \cup {Mate(v) : v \in I32Samples}

\* as_centipawns of both scores of the pair
compare ==
    /\ ret = None
    /\ ret' = Some([fn |-> "as_centipawns",
                    out |-> << as_centipawns(arg[1]), as_centipawns(arg[2]) >>])
    /\ UNCHANGED << local, cursor >>
    /\ CallFrame

\* display of the first score of the pair
show ==
    /\ ret = None
    /\ \E o \in display(arg[1]) : ret' = Some([fn |-> "display", out |-> o])
    /\ UNCHANGED << local, cursor >>
    /\ CallFrame

NextScore == compare \/ show

SpecScore == InitCall(Scores \X Scores) /\ [][NextScore]_vars

(***************************************************************************)
(* EngineModel::analysis_lines (lines 98-102), after the lines of an       *)
(* engine that numbers its variations as it likes.                         *)
(***************************************************************************)
\* line 100: the key of sort_by_key
sort_key(info) == IF info.multipv # None THEN info.multipv[1] ELSE "1"

\* x put behind every element whose key is not above its own
RECURSIVE InsertByKey(_, _)
InsertByKey(sorted, x) ==
    IF sorted # << >> /\ NumLess(sort_key(x), sort_key(sorted[Len(sorted)]))
    THEN Append(InsertByKey(SubSeq(sorted, 1, Len(sorted) - 1), x),
                sorted[Len(sorted)])
    ELSE Append(sorted, x)

\* slice::sort_by_key: a stable sort
RECURSIVE sort_by_key(_)
sort_by_key(xs) ==
    IF xs = << >> THEN << >>
    ELSE InsertByKey(sort_by_key(SubSeq(xs, 1, Len(xs) - 1)), xs[Len(xs)])

\* HashMap::values: the values, each once, in an order of the map's choosing
values(map) ==
    LET n == Cardinality(DOMAIN map)
    IN  {[i \in 1 .. n |-> map[f[i]]] :
            f \in {g \in [1 .. n -> DOMAIN map] :
                     \A i, j \in 1 .. n : g[i] = g[j] => i = j}}

\* what the engine writes: variations numbered 1, 2, 3, not numbered,
\* numbered 0 and 10, and a line that is no analysis
PvLines ==
    {"info depth 9 score cp 35 pv e2e4",
     "info depth 9 multipv 1 score cp 30 pv e2e4",
     "info depth 9 multipv 2 score cp 15 pv d2d4",
     "info depth 9 multipv 3 score cp 5 pv g1f3",
     "info depth 9 multipv 10 score cp -5 pv a2a3",
     "info depth 9 multipv 0 score cp 0 pv h2h4",
     "info depth 9 multipv 2 currmove d2d4"}

ingest_pv ==
    /\ Len(appended) < MaxPvLines
    /\ \E line \in PvLines : Install(add_output(Fields, line))
    /\ UNCHANGED << black_to_move, current_fen, event_receiver, command_sender,
                    process, poll_task, dropped, world, calls, exit_markers,
                    notified, last, call, tree, stop_pc, stdin >>

\* analysis_lines(): the map it was called on and the Vec it returned
get_analysis_lines ==
    /\ \E out \in {sort_by_key(vs) : vs \in values(analysis_lines)} :
         ret' = Some([map |-> analysis_lines, out |-> out])
    /\ UNCHANGED << ctl, dropped, world, calls, appended, exit_markers, notified,
                    last, arg, local, cursor, tree, stop_pc, stdin >>

NextSorted == ingest_pv \/ get_analysis_lines

SpecSorted == Init /\ [][NextSorted]_vars

(***************************************************************************)
(* start_analysis with the position strings a consumer may pass, on a      *)
(* session whose threads and engine are not scheduled.                     *)
(***************************************************************************)
FenInputs ==
    {"rnbqkbnr/pppppppp/8/8/8/8/PPPPPPPP/RNBQKBNR w KQkq - 0 1",
     "rnbqkbnr/pppppppp/8/8/4P3/8/PPPP1PPP/RNBQKBNR b KQkq e3 0 1",
     " 8/8/8/8/8/8/8/8 \t b - - 0 1",
     "8/8/8/8/8/8/8/8  w  - - 0 1",
     "8/8/8/8/8/8/8/8 B - - 0 1",
     "8/8/8/8/8/8/8/8 bb - - 0 1",
     "8/8/8/8/8/8/8/8 - b 0 1",
     "b w",
     "8/8/8/8/8/8/8/8 b",
     "8/8/8/8/8/8/8/8",
     "b",
     "b ",
     "",
     "  "}

NextFen == start \/ \E fen \in FenInputs : start_analysis(fen)

SpecFen == Init /\ [][NextFen]_vars

(***************************************************************************)
(* move_tree.rs: MoveTree, a game with its variations.  A tree value is    *)
(* [nodes, current_id]; an operation gives the tree it leaves and the      *)
(* value it returns (None for ()).                                         *)
(***************************************************************************)
\* a returned bool, a returned MoveNodeId
Bool(b) == [bool |-> b]

Id(n) == [id |-> n]

\* MoveNode::new (lines 38-46)
MoveNode_new(id, parent_id, position, san) ==
    [id |-> id, parent_id |-> Some(parent_id), position |-> position,
     san |-> Some(san), children |-> << >>]

\* MoveTree::get (lines 107-109) for an id below nodes.len()
get(ns, id) == ns[id + 1]

\* MoveNode::main_line_child (lines 49-51)
main_line_child(node) ==
    IF node.children = << >> THEN None ELSE Some(node.children[1])

\* lines 122-129
go_to(t, id) ==
    IF id < Len(t.nodes)
    THEN [t |-> [t EXCEPT !.current_id = id], v |-> Some(Bool(TRUE))]
    ELSE [t |-> t, v |-> Some(Bool(FALSE))]

\* lines 132-134
go_to_root(t) == [t |-> [t EXCEPT !.current_id = 0], v |-> None]

\* lines 137-144
go_back(t) ==
    LET parent_id == get(t.nodes, t.current_id).parent_id
    IN  IF parent_id # None
        THEN [t |-> [t EXCEPT !.current_id = parent_id[1]], v |-> Some(Bool(TRUE))]
        ELSE [t |-> t, v |-> Some(Bool(FALSE))]

\* lines 147-154
go_forward(t) ==
    LET child_id == main_line_child(get(t.nodes, t.current_id))
    IN  IF child_id # None
        THEN [t |-> [t EXCEPT !.current_id = child_id[1]], v |-> Some(Bool(TRUE))]
        ELSE [t |-> t, v |-> Some(Bool(FALSE))]

\* lines 157-159: while self.go_forward() {}
RECURSIVE go_to_end(_)
go_to_end(t) ==
    LET r == go_forward(t)
    IN  IF r.v = Some(Bool(TRUE)) THEN go_to_end(r.t) ELSE [t |-> r.t, v |-> None]

\* lines 189-199: a new node, the last child of the current node
add_move_new(t, position, san) ==
    LET new_id == Len(t.nodes)
        pushed == Append(t.nodes,
                         MoveNode_new(new_id, t.current_id, position, san))
    IN  [t |-> [nodes |-> [pushed EXCEPT ![t.current_id + 1].children =
                                              Append(@, new_id)],
                current_id |-> new_id],
         v |-> Some(Id(new_id))]

\* a faulty variant of add_move: the children are not searched
add_move_always_new(t, position, san) == add_move_new(t, position, san)

\* lines 176-200
add_move(t, position, san) ==
    LET children == get(t.nodes, t.current_id).children
        found == {i \in 1 .. Len(children) :
                    get(t.nodes, children[i]).san = Some(san)}
    IN  IF found # {}
        THEN LET child_id == children[CHOOSE i \in found :
                                         \A j \in found : i <= j]
             IN  [t |-> [t EXCEPT !.current_id = child_id], v |-> Some(Id(child_id))]
        ELSE add_move_new(t, position, san)

\* lines 203-211, from node id on
RECURSIVE main_line_from(_, _)
main_line_from(ns, id) ==
    LET child_id == main_line_child(get(ns, id))
    IN  << id >> \o (IF child_id # None THEN main_line_from(ns, child_id[1])
                     ELSE << >>)

main_line(ns) == main_line_from(ns, 0)

\* a faulty variant of is_descendant_of: the node itself only
is_descendant_of_itself(ns, node_id, ancestor_id) == node_id = ancestor_id

\* lines 243-254
RECURSIVE is_descendant_of(_, _, _)
is_descendant_of(ns, node_id, ancestor_id) ==
    IF node_id = ancestor_id THEN TRUE
    ELSE LET parent == IF node_id < Len(ns) THEN get(ns, node_id).parent_id
                       ELSE None
         IN  IF parent # None THEN is_descendant_of(ns, parent[1], ancestor_id)
             ELSE FALSE

\* Vec::retain(|&id| id != node_id)
RECURSIVE retain_not(_, _)
retain_not(children, node_id) ==
    IF children = << >> THEN << >>
    ELSE (IF Head(children) # node_id THEN << Head(children) >> ELSE << >>)
         \o retain_not(Tail(children), node_id)

\* lines 216-240
delete_node(t, node_id) ==
    IF node_id = 0 \/ node_id >= Len(t.nodes) THEN [t |-> t, v |-> Some(Bool(FALSE))]
    ELSE LET parent == get(t.nodes, node_id).parent_id
         IN  IF parent = None THEN [t |-> t, v |-> Some(Bool(FALSE))]
             ELSE LET parent_id == parent[1]
                  IN  [t |-> [nodes |-> [t.nodes EXCEPT ![parent_id + 1].children =
                                            retain_not(@, node_id)],
                              current_id |->
                                  IF is_descendant_of(t.nodes, t.current_id, node_id)
                                  THEN parent_id ELSE t.current_id],
                       v |-> Some(Bool(TRUE))]

\* lines 279-298
RECURSIVE find_variation_branch_point(_, _)
find_variation_branch_point(ns, node_id) ==
    IF node_id = 0 THEN 0
    ELSE LET parent == get(ns, node_id).parent_id
         IN  IF parent = None THEN 0
             ELSE IF main_line_child(get(ns, parent[1])) # Some(node_id)
                  THEN node_id
                  ELSE find_variation_branch_point(ns, parent[1])

\* lines 301-325: Vec::remove(pos), then Vec::insert(0, id)
promote_node(ns, node_id) ==
    LET parent   == get(ns, node_id).parent_id
        children == IF parent # None THEN get(ns, parent[1]).children ELSE << >>
        at       == {i \in 1 .. Len(children) : children[i] = node_id}
        pos      == CHOOSE i \in at : \A j \in at : i <= j
    IN  IF parent = None \/ at = {} THEN [nodes |-> ns, ok |-> FALSE]
        ELSE IF pos = 1 THEN [nodes |-> ns, ok |-> TRUE]
        ELSE [nodes |-> [ns EXCEPT ![parent[1] + 1].children =
                            << node_id >> \o SubSeq(children, 1, pos - 1)
                            \o SubSeq(children, pos + 1, Len(children))],
              ok |-> TRUE]

\* lines 260-275
promote_variation(t, node_id) ==
    IF node_id = 0 \/ node_id >= Len(t.nodes) THEN [t |-> t, v |-> Some(Bool(FALSE))]
    ELSE LET branch_node_id == find_variation_branch_point(t.nodes, node_id)
         IN  IF branch_node_id = 0 THEN [t |-> t, v |-> Some(Bool(TRUE))]
             ELSE LET r == promote_node(t.nodes, branch_node_id)
                  IN  [t |-> [t EXCEPT !.nodes = r.nodes], v |-> Some(Bool(r.ok))]

\* lines 336-344: the path from the node up to, and without, the root
RECURSIVE path_to_root(_, _)
path_to_root(ns, current) ==
    IF current = 0 THEN << >>
    ELSE LET parent == get(ns, current).parent_id
         IN  << current >> \o (IF parent # None THEN path_to_root(ns, parent[1])
                               ELSE << >>)

\* lines 347-349: promote_variation for the nodes of the path, last first,
\* whatever it returns
RECURSIVE promote_path(_, _)
promote_path(t, path) ==
    IF path = << >> THEN t
    ELSE promote_path(promote_variation(t, path[Len(path)]).t,
                      SubSeq(path, 1, Len(path) - 1))

\* lines 330-352
promote_to_main_line(t, node_id) ==
    IF node_id = 0 \/ node_id >= Len(t.nodes) THEN [t |-> t, v |-> Some(Bool(FALSE))]
    ELSE [t |-> promote_path(t, path_to_root(t.nodes, node_id)),
          v |-> Some(Bool(TRUE))]

\* the moves and the positions a caller passes, and the ids: those of the
\* nodes there may be, and one more
Sans == {"e4", "d4", "c4"}

Positions == {"default"}

NodeIds == 0 .. MaxNodes

Tree == [nodes |-> nodes, current_id |-> current_id]

\* the tree is left as the operation left it, and its value is returned
Becomes(r) ==
    /\ returned' = r.v
    /\ current_id' = r.t.current_id
    /\ nodes' = r.t.nodes
    /\ UNCHANGED << ctl, dropped, world, calls, appended, exit_markers, notified,
                    last, call, stop_pc, stdin >>

MoveTree_go_to(id) == Becomes(go_to(Tree, id))

MoveTree_go_to_root == Becomes(go_to_root(Tree))

MoveTree_go_back == Becomes(go_back(Tree))

MoveTree_go_forward == Becomes(go_forward(Tree))

MoveTree_go_to_end == Becomes(go_to_end(Tree))

MoveTree_add_move(position, san) ==
    /\ Becomes(add_move(Tree, position, san))
    /\ Len(nodes') <= MaxNodes

\* the nodes that are no longer among the children of their parents
deleted(ns) ==
    {n \in 1 .. Len(ns) - 1 :
        \A i \in 1 .. Len(get(ns, get(ns, n).parent_id[1]).children) :
            get(ns, get(ns, n).parent_id[1]).children[i] # n}

MoveTree_delete_node(node_id) ==
    /\ Becomes(delete_node(Tree, node_id))
    /\ Cardinality(deleted(nodes')) <= MaxDeleted

MoveTree_promote_variation(node_id) == Becomes(promote_variation(Tree, node_id))

MoveTree_promote_to_main_line(node_id) ==
    Becomes(promote_to_main_line(Tree, node_id))

NextTree ==
    \/ \E id \in NodeIds : MoveTree_go_to(id)
    \/ MoveTree_go_to_root
    \/ MoveTree_go_back
    \/ MoveTree_go_forward
    \/ MoveTree_go_to_end
    \/ \E position \in Positions, san \in Sans : MoveTree_add_move(position, san)
    \/ \E node_id \in NodeIds : MoveTree_delete_node(node_id)
    \/ \E node_id \in NodeIds : MoveTree_promote_variation(node_id)
    \/ \E node_id \in NodeIds : MoveTree_promote_to_main_line(node_id)

SpecTree == Init /\ [][NextTree]_vars

(***************************************************************************)
(* Properties.                                                             *)
(***************************************************************************)
Spawned == {p \in Procs : proc[p] # "none"}

Alive == {p \in Procs : proc[p] = "alive"}

HasExited(evs) == \E i \in 1 .. Len(evs) : evs[i].t = "Exited"

LastAppended == IF appended = << >> THEN "" ELSE appended[Len(appended)]

Untouched == UNCHANGED << ctl, dropped, world, calls, appended, exit_markers >>

\* C1: once stop() has returned or the controller has been dropped, every
\* process the controller ever spawned has been killed and waited for.
C1_stop_or_drop_reaps_every_process ==
    last.op \in {"stop", "drop"} => \A p \in Spawned : proc[p] = "reaped"

\* C2: the analysis map holds no entry parsed from a line that the engine
\* wrote about a position other than the one start_analysis was last called
\* with.
C2_no_stale_analysis ==
    current_fen # None =>
        \A k \in DOMAIN analysis_lines :
            analysis_lines[k].pv[1] = PvOf(current_fen[1])

\* C3: the drain that finds the Exited event of the running session's process
\* sets running from true to false and analyzing to false and appends exactly
\* one "[Engine exited]" line; no process ever gets a second one.
C3_exit_marker_once ==
    [][\A p \in Procs :
         /\ ( /\ event_receiver = p
              /\ HasExited(events[p])
              /\ running /\ ~dropped
              /\ \E l \in Procs : wake(l) )
            => /\ ~running' /\ ~analyzing'
               /\ CountOf(appended', "[Engine exited]")
                    = CountOf(appended, "[Engine exited]") + 1
               /\ Len(output_lines') > 0
               /\ output_lines'[Len(output_lines')].raw = "[Engine exited]"
               /\ exit_markers'[p] = 1
         /\ exit_markers'[p] <= 1]_vars

\* C3: a session ended by Exited after an Error event, both processed
C3_exited_after_error ==
    \E p \in Procs :
        /\ exit_markers[p] = 1
        /\ ~running
        /\ \E i \in 1 .. Len(appended) : \E msg \in ReadErrors :
              appended[i] = "[Error: " \o msg \o "]"

\* C4: output_lines has at most 100 entries and holds the last min(k, 100)
\* of the k lines appended so far, in their order.
C4_history_is_last_100 ==
    LET k == Len(appended)
        m == IF k < 100 THEN k ELSE 100
    IN  /\ Len(output_lines) <= 100
        /\ output_lines = [i \in 1 .. m |-> UciOutput_new(appended[k - m + i])]

\* C4: more than 100 lines were appended
C4_cap_exceeded == Len(appended) > 100 /\ Len(output_lines) = 100

\* the lines of IngestLines that carry depth, score and pv
FullLines ==
    {"info depth 20 score cp 35 pv e2e4",
     "info depth 22 multipv 1 score mate -2 pv g8f6",
     "info depth 20 multipv 2 score cp 15 pv d2d4"}

\* C5: ingesting a line changes the analysis map only if the line is an info
\* line whose body has depth, score and a non-empty pv; then exactly the
\* entry at its multipv (1 when absent) is set and the others are unchanged;
\* every line is recorded in the history.
C5_ingest_gate ==
    [][LET line == appended'[Len(appended')]
           kind == UciOutputKind_parse(line)
           info == IF kind.k = "Info" THEN UciInfo_parse(kind.s) ELSE EmptyInfo
           gate == /\ kind.k = "Info"
                   /\ info.depth # None /\ info.score # None /\ Len(info.pv) > 0
           key  == IF info.multipv = None THEN "1" ELSE info.multipv[1]
       IN  /\ appended' = Append(appended, line)
           /\ output_lines' = Append(output_lines, [raw |-> line, kind |-> kind])
           /\ gate <=> line \in FullLines
           /\ IF gate
              THEN /\ DOMAIN analysis_lines' = DOMAIN analysis_lines \cup {key}
                   /\ analysis_lines'[key] = info
                   /\ \A k \in DOMAIN analysis_lines \ {key} :
                         analysis_lines'[k] = analysis_lines[k]
              ELSE analysis_lines' = analysis_lines]_vars

\* C5: a currmove update was ingested with both variations in the map
C5_partial_line_kept_entries ==
    /\ DOMAIN analysis_lines = {"1", "2"}
    /\ LastAppended = "info depth 15 currmove g1f3 currmovenumber 5"

\* C6: at most one process spawned by the controller is alive.
C6_at_most_one_process_alive == Cardinality(Alive) <= 1

\* C7: stop() on a session that is not running changes nothing: no state,
\* no command, no kill or wait, no marker.
C7_stop_idempotent ==
    [][(last'.op = "stop" /\ ~running) => Untouched]_vars

\* C7: a second stop() directly after a first
C7_second_stop ==
    last.op = "stop" /\ ~last.run /\ LastAppended = "[Engine stopped]"

\* C8: a start() whose spawn fails leaves the session as it was: not
\* running, nothing created, nothing sent, nothing appended.
C8_spawn_failure_changes_nothing ==
    [][last'.op = "start_err" => (~running /\ ~running' /\ Untouched)]_vars

\* C8: start() has just failed on a fresh controller
C8_start_failed ==
    last.op = "start_err" /\ ~running /\ Spawned = {} /\ appended = << >>

C10_redundant_calls_change_nothing ==
    [][( \/ last'.op = "start" /\ running
         \/ last'.op = "start_analysis" /\ ~running
         \/ last'.op = "stop_analysis" /\ ~analyzing ) => Untouched]_vars

\* C10: start_analysis on a stopped session that still holds analysis
C10_start_analysis_while_stopped ==
    last.op = "start_analysis" /\ ~last.run /\ analysis_lines # EmptyMap

\* C11 as stated: start_analysis(fen) on a running session always enqueues
\* "stop" (iff analyzing), "position fen <fen>" and "go infinite", and
\* stop_analysis on an analyzing session always enqueues "stop".
C11_analysis_commands_always_enqueued ==
    [][/\ \A fen \in Fens :
            (start_analysis(fen) /\ running) =>
                sent'[command_sender] =
                    sent[command_sender]
                    \o (IF analyzing THEN << "stop" >> ELSE << >>)
                    \o << "position fen " \o fen, "go infinite" >>
       /\ (stop_analysis /\ analyzing) =>
                sent'[command_sender] = Append(sent[command_sender], "stop")]_vars

\* C11, amended: while the writer thread of the session still receives,
\* start_analysis(fen) on a running session enqueues "stop" (iff analyzing
\* on entry), "position fen <fen>", "go infinite", in this order, and
\* stop_analysis on an analyzing session enqueues exactly "stop"; once that
\* writer thread has ended nothing is enqueued.  In both cases
\* start_analysis sets current_fen to fen and analyzing to true, and
\* stop_analysis sets analyzing to false; running stays true.
C11_analysis_commands ==
    [][LET tx      == command_sender
           writing == tx # 0 /\ wpc[tx] = "run"
       IN  /\ \A fen \in Fens :
                (start_analysis(fen) /\ running) =>
                    /\ tx # 0
                    /\ sent'[tx] =
                         IF writing
                         THEN sent[tx]
                              \o (IF analyzing THEN << "stop" >> ELSE << >>)
                              \o << "position fen " \o fen, "go infinite" >>
                         ELSE sent[tx]
                    /\ \A q \in Procs \ {tx} : sent'[q] = sent[q]
                    /\ current_fen' = << fen >>
                    /\ analyzing' /\ running'
           /\ (stop_analysis /\ analyzing) =>
                    /\ tx # 0
                    /\ sent'[tx] = IF writing THEN Append(sent[tx], "stop")
                                   ELSE sent[tx]
                    /\ \A q \in Procs \ {tx} : sent'[q] = sent[q]
                    /\ ~analyzing' /\ running /\ running']_vars

\* C11: a second start_analysis, for another position, while analyzing
C11_second_analysis ==
    /\ running /\ analyzing
    /\ current_fen = << FenB >>
    /\ sent[1] = << "uci", "isready", "setoption name MultiPV value 3",
                    "position fen " \o FenW, "go infinite",
                    "stop", "position fen " \o FenB, "go infinite" >>

\* C12: the session starts Stopped, analyzing implies running, and
\* (running, analyzing) changes only Stopped -> Idle by start, Idle ->
\* Analyzing by start_analysis, Analyzing -> Idle by stop_analysis, and
\* Idle or Analyzing -> Stopped by stop, by drop, or by a drain that finds
\* Exited.
C12_lifecycle ==
    /\ ~running /\ ~analyzing
    /\ [][LET op     == last'.op
              from   == << running, analyzing >>
              to     == << running', analyzing' >>
          IN  /\ analyzing' => running'
              /\ from # to =>
                   \/ from = << FALSE, FALSE >> /\ to = << TRUE, FALSE >>
                      /\ op = "start"
                   \/ from = << TRUE, FALSE >> /\ to = << TRUE, TRUE >>
                      /\ op = "start_analysis"
                   \/ from = << TRUE, TRUE >> /\ to = << TRUE, FALSE >>
                      /\ op = "stop_analysis"
                   \/ from[1] /\ to = << FALSE, FALSE >>
                      /\ \/ op \in {"stop", "drop"}
                         \/ op = "wake" /\ HasExited(collected)]_vars

\* C12: an analyzing session was stopped by an Exited event
C12_exit_while_analyzing ==
    last = [op |-> "wake", run |-> TRUE, ana |-> TRUE] /\ ~running /\ ~analyzing

\* C13: a wake of a poll loop calls cx.notify() once if its drain processed
\* at least one event, and not at all otherwise; nothing else notifies.
C13_notify_once_per_drain ==
    [][notified' =
         IF last'.op = "wake" /\ ~dropped /\ running /\ collected # << >>
         THEN notified + 1
         ELSE notified]_vars

\* C13: one wake drained two events and notified once
C13_two_events_one_notify ==
    /\ last.op = "wake"
    /\ notified = 1
    /\ Len(appended) = 3
    /\ appended[1] = "[Engine started]"

\* C14 as stated: every start_analysis leaves the history as it was and
\* clears the analysis map.
C14_start_analysis_always_clears ==
    [][last'.op = "start_analysis" =>
          (output_lines' = output_lines /\ analysis_lines' = EmptyMap)]_vars

\* C14, amended: start_analysis never changes the history; on a running
\* session it clears the analysis map, and on a session that is not running
\* it leaves the map as it was.
C14_start_analysis_keeps_history ==
    [][last'.op = "start_analysis" =>
          /\ output_lines' = output_lines
          /\ appended' = appended
          /\ analysis_lines' = IF running THEN EmptyMap ELSE analysis_lines]_vars

\* C14: start_analysis has just cleared a map that held an entry
C14_cleared_with_history ==
    /\ last.op = "start_analysis" /\ last.run
    /\ analysis_lines = EmptyMap
    /\ \E i \in 1 .. Len(output_lines) : output_lines[i].kind.k = "Info"

\* the moves, each after a space
RECURSIVE SpacePrefixed(_)
SpacePrefixed(ms) ==
    IF ms = << >> THEN "" ELSE " " \o Head(ms) \o SpacePrefixed(Tail(ms))

\* C15: to_uci_string gives each command its line of the table: the fixed
\* forms, and for Position "position ", then "fen <fen>" or "startpos",
\* then " moves" and the moves each after one space when there are moves;
\* the line does not end in a newline.
C15_encode_table ==
    ret # None =>
        LET line == ret[1]
        IN  /\ arg = Uci => line = "uci"
            /\ arg = IsReady => line = "isready"
            /\ arg = UciNewGame => line = "ucinewgame"
            /\ arg = Stop => line = "stop"
            /\ arg = Quit => line = "quit"
            /\ arg = GoInfinite => line = "go infinite"
            /\ arg.t = "GoDepth" => line = "go depth " \o arg.d
            /\ arg.t = "SetOption" =>
                 line = "setoption name " \o arg.name \o " value " \o arg.value
            /\ arg.t = "Position" =>
                 line = "position "
                        \o (IF arg.fen = << >> THEN "startpos"
                            ELSE "fen " \o arg.fen[1])
                        \o (IF Len(arg.moves) = 0 THEN ""
                            ELSE " moves" \o SpacePrefixed(arg.moves))
            /\ arg = Position(None, << "e2e4", "e7e5" >>) =>
                 line = "position startpos moves e2e4 e7e5"
            /\ arg = Position(Some(FenB), << >>) =>
                 line = "position fen 4k3/4p3/8/8/8/8/8/4K3 b - - 0 1"
            /\ arg = GoDepth("20") => line = "go depth 20"
            /\ arg = SetOption("MultiPV", "3") =>
                 line = "setoption name MultiPV value 3"
            /\ Len(line) > 0
            /\ SubSeq(line, Len(line), Len(line)) # "\n"

\* C15: a position with a FEN and two moves has been encoded
C15_fen_and_moves_encoded ==
    /\ ret # None
    /\ arg = Position(Some(FenW), << "e2e4", "e7e5" >>)
    /\ ret[1] = "position fen 4k3/8/8/8/8/8/4P3/4K3 w - - 0 1 moves e2e4 e7e5"

\* the kind the text has when every kind is chosen by prefix
KindByPrefix(text) ==
    IF StartsWith(text, "uciok") THEN [k |-> "UciOk"]
    ELSE IF StartsWith(text, "readyok") THEN [k |-> "ReadyOk"]
    ELSE IF StartsWith(text, "info ")
         THEN [k |-> "Info", s |-> SubSeq(text, 6, Len(text))]
    ELSE IF StartsWith(text, "bestmove ")
         THEN [k |-> "BestMove", s |-> SubSeq(text, 10, Len(text))]
    ELSE IF StartsWith(text, "id ")
         THEN [k |-> "Id", s |-> SubSeq(text, 4, Len(text))]
    ELSE IF StartsWith(text, "option ")
         THEN [k |-> "Option", s |-> SubSeq(text, 8, Len(text))]
    ELSE [k |-> "Other", s |-> text]

\* C16 as stated: the kind of a line is chosen by prefix match of the
\* trimmed line against "uciok", "readyok", "info ", "bestmove ", "id ",
\* "option ", else Other with the trimmed line.
C16_classified_by_prefix == ret # None => ret[1] = KindByPrefix(arg[2])

\* C16, amended: the trimmed line is UciOk if it equals "uciok", ReadyOk if
\* it equals "readyok", else Info, BestMove, Id or Option with the text
\* after the prefix if it begins with "info ", "bestmove ", "id " or
\* "option ", else Other with the trimmed line; whitespace around the line
\* never changes the result.
C16_classified ==
    ret # None =>
        LET text == arg[2]
        IN  ret[1] = IF text = "uciok" THEN [k |-> "UciOk"]
                     ELSE IF text = "readyok" THEN [k |-> "ReadyOk"]
                     ELSE IF StartsWith(text, "uciok") \/ StartsWith(text, "readyok")
                          THEN [k |-> "Other", s |-> text]
                     ELSE KindByPrefix(text)

\* C16: a line with whitespace around it that begins with "uciok" and is
\* not "uciok"
C16_uciok_with_more ==
    /\ ret # None
    /\ arg = << " ", "uciok extra", "\r" >>
    /\ ret[1] = [k |-> "Other", s |-> "uciok extra"]

\* the keywords that C17 names
Reserved ==
    {"depth", "seldepth", "multipv", "score", "nodes", "nps", "time",
     "hashfull", "currmove", "currmovenumber", "string", "refutation",
     "currline"}

\* the first index after i of a reserved keyword, or the length plus one
RECURSIVE NextReserved(_, _)
NextReserved(ts, i) ==
    IF i >= Len(ts) THEN Len(ts) + 1
    ELSE IF ts[i + 1] \in Reserved THEN i + 1
    ELSE NextReserved(ts, i + 1)

\* C17: at the key pv the parser collects the tokens that follow, in order,
\* up to the end or up to the first reserved keyword, and goes on at that
\* keyword, so that a field after the pv is parsed; a body with no pv token
\* gives an empty pv.
C17_pv_collection ==
    [][/\ (local # None /\ ret = None /\ cursor <= Len(local[1].tokens)
           /\ local[1].tokens[cursor] = "pv") =>
              LET ts == local[1].tokens
                  j  == NextReserved(ts, cursor)
              IN  /\ cursor' = j
                  /\ local'[1].info.pv
                       = local[1].info.pv \o SubSeq(ts, cursor + 1, j - 1)
       /\ ret' # None =>
              /\ (\A k \in 1 .. Len(local[1].tokens) : local[1].tokens[k] # "pv")
                    => ret'[1].pv = << >>
              /\ arg = "pv e2e4 depth 7" =>
                    ret'[1].pv = << "e2e4" >> /\ ret'[1].depth = << "7" >>
              /\ arg = "pv 7 e2e4 pv" => ret'[1].pv = << "7", "e2e4", "pv" >>
              /\ arg = "depth 7 nps e2e4" => ret'[1].pv = << >>]_vars

\* C17: a pv that ends at a keyword whose field was then parsed
C17_field_after_pv ==
    /\ ret # None
    /\ arg = "pv e2e4 nps 7"
    /\ ret[1].pv = << "e2e4" >>
    /\ ret[1].nps = << "7" >>

\* the keys that take a value
ValueKeys == {"depth", "nps"}

\* C18: every iteration moves the cursor forward by at least one token and
\* never past the end plus one; a token that is no key moves it by exactly
\* one; a key whose value is missing or does not parse moves it on and sets
\* no field; and the parser returns a result.
C18_parse_terminates ==
    /\ [][(local # None /\ ret = None /\ cursor <= Len(local[1].tokens)) =>
            LET ts  == local[1].tokens
                tok == ts[cursor]
            IN  /\ local' # None
                /\ cursor' > cursor
                /\ cursor' <= Len(ts) + 1
                /\ tok \in {"cp", "mate", "e2e4", "7", "string"} =>
                      cursor' = cursor + 1 /\ local' = local
                /\ (tok \in ValueKeys \cup {"score"} /\ cursor = Len(ts)) =>
                      cursor' = cursor + 1 /\ local' = local
                /\ (tok = "score" /\ cursor + 1 = Len(ts)) =>
                      cursor' = cursor + 1 /\ local' = local
                /\ (tok = "depth" /\ cursor < Len(ts) /\ ts[cursor + 1] # "7") =>
                      cursor' = cursor + 2 /\ local'[1].info.depth = << >>
                /\ (tok = "score" /\ cursor + 2 <= Len(ts)
                    /\ ts[cursor + 1] \in {"cp", "mate"} /\ ts[cursor + 2] # "7") =>
                      cursor' = cursor + 3 /\ local' = local]_vars
    /\ <>(ret # None)

\* C18: a body that ends in a key without its value has been parsed
C18_missing_value_parsed ==
    /\ ret # None
    /\ arg = "depth 7 score cp"
    /\ ret[1].depth = << "7" >>
    /\ ret[1].score = << >>

\* C19: as_centipawns gives c for Centipawns(c), 10000 - n for Mate(n) with
\* n > 0 and -10000 - n for Mate(n) with n < 0, without overflow; a mate in
\* fewer moves is worth more, and being mated in fewer moves is worth less.
C19_comparable_value ==
    (ret # None /\ ret[1].fn = "as_centipawns") =>
        LET x  == arg[1]
            y  == arg[2]
            vx == ret[1].out[1]
            vy == ret[1].out[2]
        IN  /\ vx # None /\ vy # None
            /\ x.kind = "cp" => vx[1] = x.v
            /\ (x.kind = "mate" /\ x.v > 0) => vx[1] + x.v = 10000
            /\ (x.kind = "mate" /\ x.v < 0) => vx[1] + x.v = -10000
            /\ x = Mate(1) => vx[1] = 9999
            /\ x = Mate(-1) => vx[1] = -9999
            /\ x = Mate(I32_MAX) => vx[1] = -2147473647
            /\ x = Mate(I32_MIN) => vx[1] = 2147473648
            /\ (x.kind = "mate" /\ y.kind = "mate" /\ 0 < x.v /\ x.v < y.v) =>
                  vx[1] > vy[1]
            /\ (x.kind = "mate" /\ y.kind = "mate" /\ y.v < x.v /\ x.v < 0) =>
                  vx[1] < vy[1]

\* C19: being mated in 1 was compared with being mated in 3
C19_mated_in_1_and_3 ==
    /\ ret # None
    /\ arg = << Mate(-1), Mate(-3) >>
    /\ ret[1] = [fn |-> "as_centipawns", out |-> << << -9999 >>, << -9997 >> >>]

\* C20: display never fails; Mate(n) gives "M" and n for n > 0 and "-M" and
\* |n| for n <= 0; Centipawns(cp) gives "+" for cp >= 0 and "-" for cp < 0,
\* then |cp| / 100 with exactly two decimals.
C20_display ==
    (ret # None /\ ret[1].fn = "display") =>
        LET x    == arg[1]
            text == ret[1].out.text
            body == SubSeq(text, 2, Len(text))
            n    == Len(body)
            w    == SubSeq(body, 1, n - 3)
            f    == SubSeq(body, n - 1, n)
            m    == SubSeq(text, 3, Len(text))
        IN  /\ ret[1].out.ok
            /\ (x.kind = "mate" /\ x.v > 0) => text = "M" \o ToString(x.v)
            /\ (x.kind = "mate" /\ x.v <= 0) =>
                  /\ StartsWith(text, "-M")
                  /\ m # "" /\ AllDigits(m) /\ StripZeros(m) = m
                  /\ NegVal(m, 0) = x.v
            /\ x.kind = "cp" =>
                  /\ SubSeq(text, 1, 1) = IF x.v >= 0 THEN "+" ELSE "-"
                  /\ n >= 4
                  /\ SubSeq(body, n - 2, n - 2) = "."
                  /\ w # "" /\ AllDigits(w) /\ StripZeros(w) = w
                  /\ AllDigits(f)
                  /\ NegVal(w \o f, 0) = IF x.v >= 0 THEN -x.v ELSE x.v
            /\ x = Centipawns(35) => text = "+0.35"
            /\ x = Centipawns(-125) => text = "-1.25"
            /\ x = Centipawns(0) => text = "+0.00"
            /\ x = Mate(3) => text = "M3"
            /\ x = Mate(-2) => text = "-M2"
            /\ x = Mate(0) => text = "-M0"

\* C21: analysis_lines() returns every entry of the map exactly once, in
\* strictly ascending order of multipv (absent: 1); the key of every entry
\* is its sort key; the entry of index 1 comes first when there is one.
C21_sorted_lines ==
    ret # None =>
        LET map == ret[1].map
            out == ret[1].out
        IN  /\ Len(out) = Cardinality(DOMAIN map)
            /\ \A k \in DOMAIN map :
                 Cardinality({i \in 1 .. Len(out) : out[i] = map[k]}) = 1
            /\ \A k \in DOMAIN map : sort_key(map[k]) = k
            /\ \A i, j \in 1 .. Len(out) :
                 i < j => NumLess(sort_key(out[i]), sort_key(out[j]))
            /\ "1" \in DOMAIN map => sort_key(out[1]) = "1"

\* s without the whitespace it starts with
RECURSIVE SkipWs(_)
SkipWs(s) == IF s # "" /\ IsWs(Head(s)) THEN SkipWs(Tail(s)) ELSE s

\* s without the field it starts with
RECURSIVE SkipField(_)
SkipField(s) == IF s # "" /\ ~IsWs(Head(s)) THEN SkipField(Tail(s)) ELSE s

\* the field s starts with
RECURSIVE FirstField(_)
FirstField(s) ==
    IF s # "" /\ ~IsWs(Head(s)) THEN Head(s) \o FirstField(Tail(s)) ELSE ""

\* C22: start_analysis(fen) on a running session sets black_to_move to
\* true if fen has a second whitespace-delimited field and that field is
\* "b", and to false otherwise.
C22_black_to_move ==
    [][\A fen \in FenInputs :
          (start_analysis(fen) /\ running) =>
              LET rest == SkipWs(SkipField(SkipWs(fen)))
              IN  black_to_move' = (rest # "" /\ FirstField(rest) = "b")]_vars

\* C22: Black to move, read behind a tab, and a position of one field "b"
C22_second_field_b ==
    /\ running /\ analyzing
    /\ black_to_move
    /\ current_fen = << " 8/8/8/8/8/8/8/8 \t b - - 0 1" >>
    /\ sent[1][4] = "position fen b"

\* C23: add_move(position, san) at a node with a child of that SAN creates
\* no node, changes no children list, moves to that child and returns its
\* id; otherwise it creates one node whose id is the former node count, as
\* the last child of the current node, moves to it and returns its id.
\* The same add_move again from the same node gives the same tree, the same
\* current node and the same id.
C23_add_move ==
    [][\A position \in Positions, san \in Sans :
          MoveTree_add_move(position, san) =>
              LET current == nodes[current_id + 1]
                  same == {i \in 1 .. Len(current.children) :
                             nodes[current.children[i] + 1].san = << san >>}
                  count == Len(nodes)
                  again == add_move([nodes |-> nodes', current_id |-> current_id],
                                    position, san)
              IN  /\ IF same # {}
                     THEN /\ nodes' = nodes
                          /\ \E i \in same : current_id' = current.children[i]
                     ELSE /\ Len(nodes') = count + 1
                          /\ \A n \in 1 .. count :
                               nodes'[n] =
                                 IF n = current_id + 1
                                 THEN [nodes[n] EXCEPT !.children = Append(@, count)]
                                 ELSE nodes[n]
                          /\ nodes'[count + 1].id = count
                          /\ nodes'[count + 1].parent_id = << current_id >>
                          /\ nodes'[count + 1].san = << san >>
                          /\ nodes'[count + 1].children = << >>
                          /\ current_id' = count
                  /\ returned' = << Id(current_id') >>
                  /\ again.t = [nodes |-> nodes', current_id |-> current_id']
                  /\ again.v = returned']_vars

\* C23: a move that was there already, added again from the root after a
\* variation was added
C23_existing_move ==
    /\ Len(nodes) = 3
    /\ nodes[1].children = << 1, 2 >>
    /\ current_id = 1
    /\ returned = << Id(1) >>

\* the ids of the parent of node id, of its parent, and so on
RECURSIVE Ancestors(_, _)
Ancestors(ns, id) ==
    LET p == ns[id + 1].parent_id
    IN  IF p = << >> THEN {} ELSE {p[1]} \cup Ancestors(ns, p[1])

\* C24: delete_node(id) returns false and changes nothing when id is 0 or
\* is no id of a node; otherwise it returns true, takes id out of the
\* children of its parent, changes no other children list (and no node),
\* and moves to the parent of id exactly when the current node was id or a
\* descendant of id.
C24_delete_node ==
    [][\A node_id \in NodeIds :
          MoveTree_delete_node(node_id) =>
              IF node_id = 0 \/ node_id >= Len(nodes)
              THEN /\ returned' = << Bool(FALSE) >>
                   /\ nodes' = nodes
                   /\ current_id' = current_id
              ELSE LET parent == nodes[node_id + 1].parent_id[1]
                   IN  /\ returned' = << Bool(TRUE) >>
                       /\ Len(nodes') = Len(nodes)
                       /\ \A n \in 1 .. Len(nodes) :
                            nodes'[n] =
                              IF n = parent + 1
                              THEN [nodes[n] EXCEPT !.children =
                                      SelectSeq(@, LAMBDA c : c # node_id)]
                              ELSE nodes[n]
                       /\ \A i \in 1 .. Len(nodes'[parent + 1].children) :
                            nodes'[parent + 1].children[i] # node_id
                       /\ current_id' =
                            IF current_id = node_id
                               \/ node_id \in Ancestors(nodes, current_id)
                            THEN parent
                            ELSE current_id]_vars

\* C24: node 2 was deleted from under node 1 with its child, node 3, while
\* the current node was in its subtree
C24_deleted_subtree ==
    /\ Len(nodes) = 4
    /\ nodes[2].children = << >>
    /\ nodes[3].parent_id = << 1 >>
    /\ nodes[3].children = << 3 >>
    /\ current_id = 1
    /\ returned = << Bool(TRUE) >>

\* node id, its parent, and so on up to the root are each the first child
\* of their parent
RECURSIVE FirstChildren(_, _)
FirstChildren(ns, id) ==
    id = 0 \/ LET p == ns[id + 1].parent_id[1]
              IN  /\ ns[p + 1].children # << >>
                  /\ ns[p + 1].children[1] = id
                  /\ FirstChildren(ns, p)

\* the nearest of node id and its ancestors that is not the first child of
\* its parent; 0 when there is none
RECURSIVE NearestVariation(_, _)
NearestVariation(ns, id) ==
    IF id = 0 THEN 0
    ELSE LET p == ns[id + 1].parent_id[1]
         IN  IF ns[p + 1].children # << >> /\ ns[p + 1].children[1] = id
             THEN NearestVariation(ns, p)
             ELSE id

\* C25: after any add_move, navigation and delete_node operations, a
\* promote_to_main_line(id) that returns true leaves id on main_line():
\* every node from id up to the root is the first child of its parent.
\* promote_variation(id), for a node id other than the root, moves the
\* nearest of id and its ancestors that is not a first child to the front
\* of the children of its parent, keeps the order of the others, and
\* changes no other node and not the current node.
C25_promotions ==
    [][/\ \A node_id \in NodeIds :
            (MoveTree_promote_to_main_line(node_id)
             /\ returned' = << Bool(TRUE) >>) =>
                /\ FirstChildren(nodes', node_id)
                /\ \E i \in 1 .. Len(main_line(nodes')) :
                     main_line(nodes')[i] = node_id
       /\ \A node_id \in 1 .. Len(nodes) - 1 :
            MoveTree_promote_variation(node_id) =>
                LET b == NearestVariation(nodes, node_id)
                    p == nodes[b + 1].parent_id[1]
                IN  /\ current_id' = current_id
                    /\ Len(nodes') = Len(nodes)
                    /\ \A n \in 1 .. Len(nodes) :
                         nodes'[n] =
                           IF b # 0 /\ n = p + 1
                           THEN [nodes[n] EXCEPT !.children =
                                   << b >> \o SelectSeq(@, LAMBDA c : c # b)]
                           ELSE nodes[n]]_vars

\* the event this step added at the end of the event queue of process p
Pushed(p) ==
    IF /\ Len(events'[p]) = Len(events[p]) + 1
       /\ SubSeq(events'[p], 1, Len(events[p])) = events[p]
    THEN << events'[p][Len(events'[p])] >>
    ELSE << >>

\* C26: the reader thread of a process pushes Exited once, as the last
\* event it pushes, and ends by pushing it, after the end of the stream and
\* after a read error alike; after an Error it pushes nothing but Exited,
\* so that in the queue an Error is followed by Exited at once.  A drain
\* appends "[Error: <message>]" for an Error event, and running and
\* analyzing change in a drain only if it holds Exited.
C26_error_then_exited ==
    [][/\ \A p \in Procs :
            LET push == Pushed(p)
                q    == events'[p]
            IN  /\ rpc[p] = "done" => push = << >>
                /\ (push # << >> /\ push[1].t = "Exited") => rpc'[p] = "done"
                /\ ( /\ rpc[p] \in {"read", "exiting"}
                     /\ rpc'[p] = "done"
                     /\ event_receiver = p ) => push = << Exited >>
                /\ (push # << >> /\ push[1].t = "Error") => rpc'[p] = "exiting"
                /\ rpc[p] = "exiting" => push \in {<< >>, << Exited >>}
                /\ \A i \in 1 .. Len(q) :
                     /\ q[i].t = "Exited" => i = Len(q)
                     /\ q[i].t = "Error" =>
                          IF i < Len(q) THEN q[i + 1].t = "Exited"
                          ELSE rpc'[p] = "exiting"
       /\ \A l \in Procs :
            (wake(l) /\ running /\ ~dropped) =>
                /\ Len(appended') = Len(appended) + Len(collected)
                /\ \A i \in 1 .. Len(collected) :
                     collected[i].t = "Error" =>
                        appended'[Len(appended) + i]
                          = "[Error: " \o collected[i].msg \o "]"
                /\ running' = ~HasExited(collected)
                /\ analyzing' = (analyzing /\ ~HasExited(collected))]_vars

\* C26: an Error event was processed on its own: the session still runs and
\* analyzes, and the reader thread has yet to push Exited
C26_error_processed_alone ==
    /\ running /\ analyzing
    /\ \E msg \in ReadErrors : LastAppended = "[Error: " \o msg \o "]"
    /\ event_receiver # 0
    /\ rpc[event_receiver] = "exiting"
    /\ events[event_receiver] = << >>

\* the command queue of the session takes line; if lossy, only while its
\* writer thread still receives
Enqueued(line, lossy) ==
    LET tx == command_sender
    IN  /\ tx # 0
        /\ sent' = IF lossy /\ wpc[tx] # "run" THEN sent
                   ELSE [sent EXCEPT ![tx] = Append(@, line)]

\* the statements of stop() on a running session, each with what it does
\* and with what has and has not been done when it runs
StopStatements(lossy) ==
    /\ stop_stop_analysis =>
         /\ IF analyzing THEN Enqueued("stop", lossy) ELSE sent' = sent
         /\ running /\ command_sender # 0
    /\ stop_quit =>
         /\ Enqueued("quit", lossy)
         /\ running /\ event_receiver # 0 /\ process # 0
    /\ stop_drop_sender =>
         /\ command_sender # 0 /\ command_sender' = 0
         /\ running /\ event_receiver # 0 /\ process # 0
    /\ stop_drop_receiver =>
         /\ event_receiver # 0 /\ event_receiver' = 0
         /\ running /\ command_sender = 0 /\ process # 0
    /\ stop_kill =>
         /\ process # 0 /\ process' = 0 /\ proc'[process] = "dead"
         /\ running /\ command_sender = 0 /\ event_receiver = 0
    /\ stop_wait =>
         /\ stop_pc.child # 0
         /\ proc[stop_pc.child] = "dead" /\ proc'[stop_pc.child] = "reaped"
         /\ running /\ command_sender = 0 /\ event_receiver = 0 /\ process = 0
    /\ stop_mark =>
         /\ running /\ ~running' /\ ~analyzing'
         /\ appended' = Append(appended, "[Engine stopped]")
         /\ command_sender = 0 /\ event_receiver = 0 /\ process = 0
    \* whichever statement does it: the receiver is dropped after the
    \* sender, and the process is taken and killed after both
    /\ (event_receiver # 0 /\ event_receiver' = 0) => command_sender = 0
    /\ (process # 0 /\ process' = 0) => command_sender = 0 /\ event_receiver = 0
    /\ (running /\ ~running' /\ stop_pc.at # "idle") => stop_mark

\* C27 as stated: stop() on a running session enqueues "stop" (only if
\* analyzing) and "quit", drops the command sender, drops the event
\* receiver, kills the process, waits for it, and then sets running and
\* analyzing to false and appends "[Engine stopped]", in this order.
C27_stop_order_enqueues ==
    [][StopStatements(FALSE)]_vars

\* C27, amended: the same order, where "stop" and "quit" are sent on the
\* command channel: enqueued while the writer thread of the session still
\* receives, and dropped without effect once it has ended.
C27_stop_order ==
    [][StopStatements(TRUE)]_vars

\* C27: stop() has run to its end on an analyzing session with a healthy
\* process
C27_stopped_in_order ==
    /\ stop_pc.at = "idle"
    /\ ~running
    /\ LastAppended = "[Engine stopped]"
    /\ proc[1] = "reaped"
    /\ Len(sent[1]) = 7
    /\ sent[1][6] = "stop" /\ sent[1][7] = "quit"

\* C28: once stop() has returned from a running session (its process was
\* killed and waited for), the reader thread and the writer thread of that
\* session both end, whatever the process did before.
C28_threads_terminate ==
    \A p \in Procs :
        (proc[p] = "reaped" /\ stop_pc.at = "idle")
            ~> (rpc[p] = "done" /\ wpc[p] = "done")

\* stop() has returned while both threads of its session were still
\* running, the writer with nothing left in its queue
C28_stopped_with_threads_running ==
    /\ stop_pc.at = "idle"
    /\ proc[1] = "reaped"
    /\ rpc[1] = "read" /\ wpc[1] = "run"
    /\ written[1] = Len(sent[1])

\* the line that the ingestion of an event appends to the history
LineOf(event) ==
    CASE event.t = "Output" -> event.line
      [] event.t = "Exited" -> "[Engine exited]"
      [] event.t = "Error" -> "[Error: " \o event.msg \o "]"

LinesOf(evs) == [i \in 1 .. Len(evs) |-> LineOf(evs[i])]

\* the lines the controller appends by itself
IsFromController(line) == line \in {"[Engine started]", "[Engine stopped]"}

IsFromEvent(line) == ~IsFromController(line)

\* what the readers have sent, as lines, while it can still be told: the
\* lines ingested so far, then the lines of the events that wait in the
\* queue of the session
Ingested_then_queued ==
    SelectSeq(appended, IsFromEvent) \o
        (IF event_receiver # 0 THEN LinesOf(events[event_receiver]) ELSE << >>)

\* C29: a wake on a running session empties the event queue and appends
\* the lines of all its events, in the order of the queue; and while the
\* receiver of a running session stays, the lines ingested followed by the
\* lines queued change only by a line sent at the end of the queue: no
\* event is ingested twice, skipped or out of order.
C29_wake_drains_in_order ==
    [][ /\ \A l \in Procs :
             (wake(l) /\ ~dropped /\ running) =>
                LET rx == event_receiver
                IN  /\ rx # 0
                    /\ events'[rx] = << >>
                    /\ appended' = appended \o LinesOf(events[rx])
                    /\ notified' = notified + (IF events[rx] # << >> THEN 1 ELSE 0)
        /\ (running /\ event_receiver # 0 /\ event_receiver' = event_receiver) =>
             \/ Ingested_then_queued' = Ingested_then_queued
             \/ /\ Len(Ingested_then_queued') = Len(Ingested_then_queued) + 1
                /\ SubSeq(Ingested_then_queued', 1, Len(Ingested_then_queued))
                      = Ingested_then_queued
                /\ events'[event_receiver] # events[event_receiver]
                /\ appended' = appended ]_vars

\* one wake has ingested two lines of a session that keeps running
C29_two_events_in_one_wake ==
    /\ running
    /\ notified = 1
    /\ appended = << "[Engine started]", "readyok", "readyok" >>

Stdin_is_prefix(p) ==
    /\ Len(stdin[p]) <= Len(sent[p])
    /\ \A i \in 1 .. Len(stdin[p]) : stdin[p][i] = sent[p][i] \o "\n"

\* C31: what has been written to the standard input of a process is a
\* prefix of the command lines enqueued for it, in order, each once and
\* with its newline; a line is enqueued at the end of the queue only; the
\* writer thread ends only at a failed write or with the queue closed and
\* empty, and writes nothing after it has ended.
C31_writer_writes_prefix ==
    [][ \A p \in Procs :
          /\ Stdin_is_prefix(p)'
          /\ Len(sent'[p]) >= Len(sent[p])
          /\ SubSeq(sent'[p], 1, Len(sent[p])) = sent[p]
          /\ \/ stdin'[p] = stdin[p]
             \/ /\ wpc[p] = "run" /\ wpc'[p] = "run"
                /\ Len(stdin'[p]) = Len(stdin[p]) + 1
                /\ SubSeq(stdin'[p], 1, Len(stdin[p])) = stdin[p]
          /\ (wpc[p] = "run" /\ wpc'[p] = "done") =>
                \/ Len(stdin[p]) < Len(sent[p]) /\ proc[p] # "alive"
                \/ Len(stdin[p]) = Len(sent[p]) /\ command_sender # p
          /\ wpc[p] = "done" => wpc'[p] = "done" ]_vars

\* the writer of a process has written some of its lines and has ended at
\* a failed write, with lines left in its queue
C31_writer_stopped_at_failed_write ==
    /\ wpc[1] = "done"
    /\ Len(stdin[1]) > 0
    /\ Len(stdin[1]) < Len(sent[1])
    /\ command_sender = 1

\* a send would fail now: there is no Sender, or the writer thread, which
\* holds the Receiver, has ended
Send_fails == command_sender = 0 \/ wpc[command_sender] # "run"

\* C32: a call of the controller whose sends fail (every call but a start,
\* which installs a new Sender) enqueues nothing and
\* does to the session state exactly what it does when they succeed:
\* stop_analysis resets analyzing, start_analysis sets it and clears the
\* analysis map, stop ends the session and appends its marker; nothing
\* else of running, analyzing, the history and the analysis map changes.
C32_failed_send_is_silent ==
    [][ Send_fails =>
          /\ command_sender' \in {0, command_sender} => sent' = sent
          /\ stop_analysis =>
                /\ analyzing' = FALSE
                /\ UNCHANGED << running, output_lines, analysis_lines,
                                appended >>
          /\ \A fen \in Fens :
                start_analysis(fen) =>
                   /\ analyzing' = TRUE
                   /\ analysis_lines' = EmptyMap
                   /\ UNCHANGED << running, output_lines, appended >>
          /\ stop =>
                /\ ~running' /\ ~analyzing'
                /\ appended' = Append(appended, "[Engine stopped]")
                /\ analysis_lines' = analysis_lines ]_vars

\* start_analysis was called on a session whose writer thread had ended:
\* the session is analyzing, and none of the commands was enqueued
C32_sends_dropped ==
    /\ running /\ analyzing
    /\ command_sender = 1
    /\ wpc[1] = "done"
    /\ sent[1] = [i \in 1 .. 3 |-> to_uci_string(handshake[i])]

\* C33: when a key occurs twice in an info body, each time with a
\* well-formed value, the field of the result is what the last occurrence
\* alone gives, for every field.
C33_last_write_wins ==
    \A key \in InfoKeys :
        \A a \in ValuesOf(key), b \in ValuesOf(key), mid \in Between :
            (arg = Occurrence(key, a) \o mid \o Occurrence(key, b) /\ ret # None)
                => ret[1][key] = UciInfo_parse(Occurrence(key, b))[key]

\* C34: every key of the analysis map is the numeral of a positive
\* integer, in its one canonical writing (so that no two keys are the
\* same integer).
C34_keys_positive ==
    \A k \in DOMAIN analysis_lines :
        /\ AllDigits(k)
        /\ StripZeros(k) = k
        /\ NumLess("0", k)

\* the session state that the queries of the controller show
Session ==
    << running, analyzing, output_lines, analysis_lines, black_to_move,
       current_fen >>

\* the history after these lines are appended to it one by one
RECURSIVE Appended_to(_, _)
Appended_to(lines, new) ==
    IF new = << >> THEN lines
    ELSE Appended_to(add_output_lines(lines, Head(new)), Tail(new))

\* C35: the session state changes only in a step of start, stop (also as
\* the destructor), start_analysis, stop_analysis or a wake of the poll
\* loop; and the history changes only by lines appended to it, the oldest
\* evicted first.
C35_session_changed_by_lifecycle_only ==
    [][ /\ Session' # Session =>
             \/ start \/ stop \/ drop \/ stop_analysis
             \/ \E fen \in Fens : start_analysis(fen)
             \/ \E l \in Procs : wake(l)
        /\ output_lines' # output_lines =>
             /\ Len(appended') > Len(appended)
             /\ SubSeq(appended', 1, Len(appended)) = appended
             /\ output_lines' =
                  Appended_to(output_lines,
                      SubSeq(appended', Len(appended) + 1, Len(appended'))) ]_vars

\* "go infinite" at place i of q has not been followed by "stop" before
\* place j
Outstanding(q, i, j) ==
    /\ q[i] = "go infinite"
    /\ \A k \in i + 1 .. j - 1 : q[k] # "stop"

\* a well-formed sequence of commands for one process
Well_formed(q) ==
    /\ q # << >> =>
          /\ Len(q) >= 3
          /\ q[1] = "uci" /\ q[2] = "isready"
          /\ q[3] = "setoption name MultiPV value 3"
    /\ \A i \in 1 .. Len(q) :
          /\ q[i] = "go infinite" =>
                /\ i > 1
                /\ \E fen \in Fens : q[i - 1] = "position fen " \o fen
                /\ \A j \in 1 .. i - 1 : ~Outstanding(q, j, i)
          /\ q[i] = "stop" => \E j \in 1 .. i - 1 : Outstanding(q, j, i)
          /\ q[i] = "quit" => i = Len(q)

Spawned_last(p) == proc[p] # "none" /\ \A q \in Procs : q > p => proc[q] = "none"

\* C38: stop() on a running session appends "[Engine stopped]" and nothing
\* else, and leaves the analysis map alone; the queue of a session that is
\* not the installed one holds nothing; and whatever a wake appends are the
\* lines of the queue of the process spawned last, which no stop() has
\* ended: no event of a stopped or of an earlier process is ingested, and
\* no "[Engine exited]" is counted for one.
C38_stopped_events_never_ingested ==
    [][ /\ (stop /\ running) =>
              /\ appended' = Append(appended, "[Engine stopped]")
              /\ analysis_lines' = analysis_lines
        /\ \A p \in Procs :
              /\ p # event_receiver' => events'[p] = << >>
              /\ (proc[p] = "reaped" \/ ~Spawned_last(p)) =>
                    exit_markers'[p] = exit_markers[p]
        /\ \A l \in Procs :
              (wake(l) /\ appended' # appended) =>
                 /\ event_receiver # 0
                 /\ Spawned_last(event_receiver)
                 /\ proc[event_receiver] # "reaped"
                 /\ appended' = appended \o LinesOf(events[event_receiver]) ]_vars

\* stop() has returned from a session whose process had written a line
\* that no wake had ingested: the line is in the history nowhere
C38_queued_event_dropped ==
    /\ proc[1] = "reaped"
    /\ emitted = 1
    /\ notified = 0
    /\ appended = << "[Engine started]", "[Engine stopped]" >>

IsOutput(event) == event.t = "Output"

\* C39: stop(), stop_analysis() and a start() that spawns leave the
\* analysis map, current_fen and black_to_move as they are, and so does a
\* wake but for the Output events it ingests: an Exited or an Error event
\* changes none of them.
C39_analysis_kept ==
    [][ /\ (stop \/ stop_analysis \/ start) =>
              UNCHANGED << analysis_lines, current_fen, black_to_move >>
        /\ \A l \in Procs :
              wake(l) =>
                 /\ UNCHANGED << current_fen, black_to_move >>
                 /\ analysis_lines' =
                      process_events(Fields,
                          SelectSeq(collected, IsOutput)).analysis_lines ]_vars

\* the engine has exited by itself and the exit was ingested: the lines of
\* its last analysis are still there
C39_lines_after_exit ==
    /\ ~running
    /\ LastAppended = "[Engine exited]"
    /\ analysis_lines # EmptyMap
    /\ current_fen # None

\* node id is reached from the root by links from a node to its children
RECURSIVE Reachable(_, _)
Reachable(ns, id) ==
    /\ id < Len(ns)
    /\ \/ id = 0
       \/ LET parent == get(ns, id).parent_id
          IN  /\ parent # None
              /\ \E i \in 1 .. Len(get(ns, parent[1]).children) :
                    get(ns, parent[1]).children[i] = id
              /\ Reachable(ns, parent[1])

\* C40: after every operation the current node is reached from the root
\* by links to children; go_to with an id outside the tree and go_back at
\* the root return false and leave the current node where it is.
C40_current_reachable ==
    [][ /\ Reachable(nodes', current_id')
        /\ \A id \in NodeIds :
              (MoveTree_go_to(id) /\ id >= Len(nodes)) =>
                 returned' = Some(Bool(FALSE)) /\ current_id' = current_id
        /\ (MoveTree_go_back /\ current_id = 0) =>
              returned' = Some(Bool(FALSE)) /\ current_id' = current_id ]_vars

=============================================================================
